---------------------------- MODULE Spec2Model ----------------------------
(***************************************************************************)
(* A model of the binary-format decoders of rom-properties (libromdata):   *)
(* the Atari SAP tag parser, the Xbox 360 XDBF resource container, the     *)
(* Xbox 360 XEX executable and the Nintendo 3DS detector.                  *)
(*                                                                         *)
(* Each decoder is a state machine of its private object's fields; one     *)
(* action models one whole call.  Every specification below fixes one file *)
(* on disk in its initial state and then runs calls on one decoder         *)
(* instance.                                                               *)
(***************************************************************************)
EXTENDS Integers, Sequences, FiniteSets, TLC

VARIABLES
    bigEndian,      \* build: SYS_BYTEORDER == SYS_BIG_ENDIAN
    sapBytes,       \* SAP: the bytes of the file on disk
    sapState,       \* SAP: "new" before the constructor ran, then "ready"
    sapFile,        \* SAPPrivate::file: "open" or "null"
    sapIsValid,     \* SAPPrivate::isValid
    sapFields,      \* SAPPrivate::fields, a sequence of <<label, value>>
    sapTags,        \* the TagData the last parseTags() call returned
    sapParses,      \* number of parseTags() runs on this instance
    sysLang,        \* XboxLanguage::getXbox360Language() of this process
    xdbfDisk,       \* XDBF: the file on disk
    xdbf,           \* XDBF: the fields of Xbox360_XDBF_Private
    detInfo,        \* detection: the DetectInfo handed to the detectors
    detCalls,       \* detection: per detector, the calls made with detInfo
    detResults,     \* detection: per detector, the values those calls returned
    xdbfReads,      \* XDBF: per resource key, the seekAndRead() calls issued (0, 1, 2 = more)
    xdbfCall        \* XDBF: the last call on the instance and what it returned

sapVars == <<sapBytes, sapState, sapFile, sapIsValid, sapFields, sapTags, sapParses>>
xdbfVars == <<sysLang, xdbfDisk, xdbf, xdbfReads, xdbfCall>>

detVars == <<detInfo, detCalls, detResults>>

VARIABLES
    xexFile,        \* XEX: the file on disk, the key store and the cipher
    xexObj,         \* XEX: the fields of Xbox360_XEX_Private
    xexCall         \* XEX: the last call on the instance and what it did

xexVars == <<xexFile, xexObj, xexCall>>

VARIABLES
    xbeFile,        \* XBE: the file on disk and what its title image decodes to
    xbeObj,         \* XBE: the fields of Xbox_XBE_Private
    xbeCall         \* XBE: the last call on the instance and what it did

xbeVars == <<xbeFile, xbeObj, xbeCall>>

VARIABLES
    n3dsFile,       \* 3DS: the file on disk
    n3dsObj,        \* 3DS: the fields of Nintendo3DSPrivate
    n3dsCall        \* 3DS: the last call on the instance and what it returned

n3dsVars == <<n3dsFile, n3dsObj, n3dsCall>>

VARIABLES
    mtLock,         \* threads: whether the callers lock, and the thread that holds the lock
    mtThreads,      \* threads: where each thread is in its call
    mtHeap          \* threads: the objects loaded and what the caches point to

mtVars == <<mtLock, mtThreads, mtHeap>>

\* The variables of the decoders that came after SAP, XDBF and detection.
restVars == <<xexVars, xbeVars, n3dsVars, mtVars>>
vars == <<bigEndian, sapVars, xdbfVars, detVars, restVars>>

-----------------------------------------------------------------------------
(* Bytes and C strings.                                                    *)

NUL == 0
LF == 10
CR == 13
SP == 32
DQUOTE == 34
EOT == 255      \* the 0xFF byte that ends the tag block

\* Bounds of the model.
MaxLines == 3       \* tag lines in a SAP header
MaxCalls == 2       \* parseTags() runs on one SAP instance

Min(a, b) == IF a < b THEN a ELSE b
Max(a, b) == IF a > b THEN a ELSE b

\* s[i] of a NUL-terminated string held in the sequence s; NUL past its end.
At(s, i) == IF i >= 1 /\ i <= Len(s) THEN s[i] ELSE NUL

\* The suffix of s that starts at index i.
From(s, i) == IF i > Len(s) THEN <<>> ELSE SubSeq(s, i, Len(s))

\* Index of the first c in s, 0 if there is none (strchr).
RECURSIVE IndexOfFrom(_, _, _)
IndexOfFrom(s, c, i) ==
    IF i > Len(s) THEN 0
    ELSE IF s[i] = c THEN i
    ELSE IndexOfFrom(s, c, i + 1)

strchr(s, c) == IndexOfFrom(s, c, 1)

\* The C string held in a buffer: the bytes before the first NUL.
CStr(buf) ==
    LET z == strchr(buf, NUL)
    IN  IF z = 0 THEN buf ELSE SubSeq(buf, 1, z - 1)

\* space, \t, \n, \v, \f, \r
ISSPACE(c) == c \in {SP, 9, LF, 11, 12, CR}

ISALPHA(c) == (c >= 65 /\ c <= 90) \/ (c >= 97 /\ c <= 122)

toupper(c) == IF c >= 97 /\ c <= 122 THEN c - 32 ELSE c

RECURSIVE strcasecmpEq(_, _)
strcasecmpEq(a, b) ==
    IF Len(a) # Len(b) THEN FALSE
    ELSE IF Len(a) = 0 THEN TRUE
    ELSE /\ toupper(Head(a)) = toupper(Head(b))
         /\ strcasecmpEq(Tail(a), Tail(b))

\* strtok_r(str, "\n"): the maximal runs of bytes other than LF, in order.
RECURSIVE TokensFrom(_, _, _)
TokensFrom(s, i, cur) ==
    IF i > Len(s)
        THEN IF cur = <<>> THEN <<>> ELSE <<cur>>
    ELSE IF s[i] = LF
        THEN IF cur = <<>> THEN TokensFrom(s, i + 1, <<>>)
             ELSE <<cur>> \o TokensFrom(s, i + 1, <<>>)
    ELSE TokensFrom(s, i + 1, Append(cur, s[i]))

strtok_lines(s) == TokensFrom(s, 1, <<>>)

\* Value of a digit in the given base, -1 if c is no digit of that base.
DigitVal(c, base) ==
    LET v == IF c >= 48 /\ c <= 57 THEN c - 48
             ELSE IF c >= 97 /\ c <= 102 THEN c - 87
             ELSE IF c >= 65 /\ c <= 70 THEN c - 55
             ELSE -1
    IN  IF v >= 0 /\ v < base THEN v ELSE -1

\* Digits of s from index i on: <<value, index after the last digit>>.
RECURSIVE DigitsFrom(_, _, _, _)
DigitsFrom(s, i, base, acc) ==
    IF DigitVal(At(s, i), base) < 0 THEN <<acc, i>>
    ELSE DigitsFrom(s, i + 1, base, acc * base + DigitVal(At(s, i), base))

\* strtol(s, &endptr, base) on a string that starts at a non-space byte:
\* an optional sign, an optional 0x prefix in base 16, then digits.
\* val is the result, end the number of bytes consumed (0: no conversion).
strtol(s, base) ==
    LET neg  == At(s, 1) = 45                           \* '-'
        i0   == IF At(s, 1) \in {43, 45} THEN 2 ELSE 1    \* '+', '-'
        pfx  == /\ base = 16
                /\ At(s, i0) = 48
                /\ At(s, i0 + 1) \in {88, 120}
                /\ DigitVal(At(s, i0 + 2), 16) >= 0
        i1   == IF pfx THEN i0 + 2 ELSE i0
        r    == DigitsFrom(s, i1, base, 0)
    IN  IF r[2] = i1 THEN [val |-> 0, end |-> 0]
        ELSE [val |-> IF neg THEN 0 - r[1] ELSE r[1], end |-> r[2] - 1]

\* static_cast<uint16_t>(long)
ToUint16(v) == v % 65536

\* latin1_to_utf8(): bytes below 0x80 are kept, the others become two bytes.
RECURSIVE latin1_to_utf8(_)
latin1_to_utf8(s) ==
    IF s = <<>> THEN <<>>
    ELSE LET c == Head(s)
         IN  (IF c < 128 THEN <<c>> ELSE <<192 + (c \div 64), 128 + (c % 64)>>)
             \o latin1_to_utf8(Tail(s))

-----------------------------------------------------------------------------
(* SAP: SAPPrivate::TagData and SAPPrivate::parseTags().                   *)

\* TagData(): the defaults.  The two flags are held as the byte of their
\* object representation (0 is false, 1 is true), because parseTags() can
\* write other bytes into them.
TagData ==
    [tags_read |-> FALSE,
     author |-> <<>>, name |-> <<>>, date |-> <<>>,
     songs |-> 1, def_song |-> 0,
     ntsc |-> 0, stereo |-> 0,
     type |-> NUL,
     fastplay |-> 0, init_addr |-> 0, music_addr |-> 0,
     player_addr |-> 0, covox_addr |-> 0]

\* The keyword table kwds[]: keyword, type, the field its pointer names.
kwds ==
    << [keyword |-> <<65,85,84,72,79,82>>,       type |-> "KT_STRING",     ptr |-> "author"],
       [keyword |-> <<78,65,77,69>>,             type |-> "KT_STRING",     ptr |-> "name"],
       [keyword |-> <<68,65,84,69>>,             type |-> "KT_STRING",     ptr |-> "date"],
       [keyword |-> <<83,79,78,71,83>>,          type |-> "KT_UINT16_DEC", ptr |-> "songs"],
       [keyword |-> <<68,69,70,83,79,78,71>>,    type |-> "KT_UINT16_DEC", ptr |-> "def_song"],
       [keyword |-> <<83,84,69,82,69,79>>,       type |-> "KT_BOOL",       ptr |-> "stereo"],
       [keyword |-> <<78,84,83,67>>,             type |-> "KT_BOOL",       ptr |-> "ntsc"],
       [keyword |-> <<84,89,80,69>>,             type |-> "KT_CHAR",       ptr |-> "type"],
       [keyword |-> <<70,65,83,84,80,76,65,89>>, type |-> "KT_UINT16_DEC", ptr |-> "fastplay"],
       [keyword |-> <<73,78,73,84>>,             type |-> "KT_UINT16_HEX", ptr |-> "init_addr"],
       [keyword |-> <<77,85,83,73,67>>,          type |-> "KT_UINT16_HEX", ptr |-> "music_addr"],
       [keyword |-> <<80,76,65,89,69,82>>,       type |-> "KT_UINT16_HEX", ptr |-> "player_addr"],
       [keyword |-> <<67,79,86,79,88>>,          type |-> "KT_UINT16_HEX", ptr |-> "covox_addr"] >>

\* *(static_cast<uint16_t*>(kwd->ptr)) = v: a two-byte store at the field's
\* address.  songs and def_song are one byte wide and are followed in TagData
\* by def_song and ntsc, so the second byte of the store lands in the next
\* member; which of the two bytes comes first is the build's byte order.
StoreUint16(tags, ptr, v, be) ==
    LET lo == v % 256
        hi == v \div 256
        b0 == IF be THEN hi ELSE lo
        b1 == IF be THEN lo ELSE hi
    IN  CASE ptr = "songs"    -> [tags EXCEPT !.songs = b0, !.def_song = b1]
          [] ptr = "def_song" -> [tags EXCEPT !.def_song = b0, !.ntsc = b1]
          [] OTHER            -> [tags EXCEPT ![ptr] = v]

\* The keyword and the parameter of one token: the keyword ends at the first
\* space; without a space it ends at the first CR.  params is <<>> for nullptr.
SplitToken(token) ==
    LET space == strchr(token, SP)
    IN  IF space # 0
        THEN LET rest == From(token, space + 1)
                 skip == CHOOSE k \in 1..(Len(rest) + 1) :
                            /\ \A j \in 1..(k - 1) : ISSPACE(rest[j])
                            /\ (k = Len(rest) + 1 \/ ~ISSPACE(rest[k]))
             IN  [keyword |-> SubSeq(token, 1, space - 1),
                  params  |-> From(rest, skip)]
        ELSE LET cr == strchr(token, CR)
             IN  [keyword |-> IF cr = 0 THEN token ELSE SubSeq(token, 1, cr - 1),
                  params  |-> <<>>]

\* The switch (kwd->type) of the keyword loop, for the keyword that matched.
ApplyKeyword(tags, kwd, params, be) ==
    CASE kwd.type = "KT_BOOL" ->
            [tags EXCEPT ![kwd.ptr] = 1]
      [] kwd.type \in {"KT_UINT16_DEC", "KT_UINT16_HEX"} ->
            IF params = <<>> THEN tags
            ELSE LET r == strtol(params, IF kwd.type = "KT_UINT16_DEC" THEN 10 ELSE 16)
                     e == At(params, r.end + 1)
                 IN  IF r.end > 0 /\ (e = NUL \/ ISSPACE(e))
                     THEN StoreUint16(tags, kwd.ptr, ToUint16(r.val), be)
                     ELSE tags
      [] kwd.type = "KT_CHAR" ->
            IF params = <<>> THEN tags
            ELSE \* !ISSPACE(params[0] && (params[1] == '\0' || ISSPACE(params[1])))
                 LET b == IF At(params, 1) # NUL
                             /\ (At(params, 2) = NUL \/ ISSPACE(At(params, 2)))
                          THEN 1 ELSE 0
                 IN  IF ~ISSPACE(b)
                     THEN [tags EXCEPT ![kwd.ptr] = At(params, 1)]
                     ELSE tags
      [] kwd.type = "KT_STRING" ->
            IF params = <<>> \/ At(params, 1) # DQUOTE THEN tags
            ELSE LET dblq == strchr(Tail(params), DQUOTE)
                 IN  IF dblq = 0 THEN tags
                     ELSE [tags EXCEPT ![kwd.ptr] =
                              latin1_to_utf8(SubSeq(Tail(params), 1, dblq - 1))]
      [] OTHER -> tags

\* One iteration of the line loop, for a token that is not the end marker.
ApplyLine(tags, token, be) ==
    LET t == SplitToken(token)
        m == {i \in 1..Len(kwds) : strcasecmpEq(kwds[i].keyword, t.keyword)}
    IN  IF m = {} THEN tags
        ELSE ApplyKeyword(tags, kwds[CHOOSE i \in m : \A j \in m : i <= j], t.params, be)

RECURSIVE ApplyLines(_, _, _)
ApplyLines(tags, tokens, be) ==
    IF tokens = <<>> \/ Head(Head(tokens)) = EOT THEN tags
    ELSE ApplyLines(ApplyLine(tags, Head(tokens), be), Tail(tokens), be)

\* file->seekAndRead(0, buf, n) on a file holding `bytes`.
ReadAt0(bytes, n) == SubSeq(bytes, 1, Min(n, Len(bytes)))

\* SAPPrivate::parseTags() on a file holding `bytes`.
parseTags(bytes, be) ==
    LET header == CStr(ReadAt0(bytes, 4096))
        sz     == Len(ReadAt0(bytes, 4096))
        crlf   == Len(header) >= 5 /\ SubSeq(header, 1, 5) = <<83,65,80,CR,LF>>
        lfOnly == Len(header) >= 4 /\ SubSeq(header, 1, 4) = <<83,65,80,LF>>
    IN  IF sz < 6 THEN TagData
        ELSE IF ~crlf /\ ~lfOnly THEN TagData
        ELSE [ApplyLines(TagData,
                         strtok_lines(From(header, IF crlf THEN 6 ELSE 5)), be)
                EXCEPT !.tags_read = TRUE]

-----------------------------------------------------------------------------
(* The variables of a decoder that a specification does not run.           *)

XexIdle ==
    /\ xexFile = <<>>
    /\ xexObj = <<>>
    /\ xexCall = <<>>

XbeIdle ==
    /\ xbeFile = <<>>
    /\ xbeObj = <<>>
    /\ xbeCall = <<>>

N3dsIdle ==
    /\ n3dsFile = <<>>
    /\ n3dsObj = <<>>
    /\ n3dsCall = <<>>

MtIdle ==
    /\ mtLock = <<>>
    /\ mtThreads = <<>>
    /\ mtHeap = <<>>

RestIdle == XexIdle /\ XbeIdle /\ N3dsIdle /\ MtIdle

XdbfIdle ==
    /\ sysLang = 0
    /\ xdbfDisk = <<>>
    /\ xdbf = <<>>
    /\ xdbfReads = <<>>
    /\ xdbfCall = <<>>

DetIdle ==
    /\ detInfo = <<>>
    /\ detCalls = <<>>
    /\ detResults = <<>>

SapIdle ==
    /\ sapBytes = <<>>
    /\ sapState = "idle"
    /\ sapFile = "null"
    /\ sapIsValid = FALSE
    /\ sapFields = <<>>
    /\ sapTags = <<>>
    /\ sapParses = 0

-----------------------------------------------------------------------------
(* SAP: the detector, the constructor and loadFieldData().                 *)

\* A DetectInfo is [header, ext, szFile]: header.pData is the sequence
\* `header` and header.size its length; header.addr is always 0.
DetectInfo(header, ext, szFile) ==
    [header |-> header, addr |-> 0, ext |-> ext, szFile |-> szFile]
\* info->ext == nullptr; an extension is a sequence of characters.
NullExt == <<>>

\* A detector that answers only while no SAP decoder has been constructed;
\* C6 must tell it from SAP::isRomSupported_static().
SAP_isRomSupported_Stateful(info) ==
    IF sapState # "new" THEN -1
    ELSE IF info.addr # 0 \/ Len(info.header) < 6 THEN -1
    ELSE IF Len(info.header) >= 7 /\ SubSeq(info.header, 1, 5) = <<83,65,80,CR,LF>> THEN 0
    ELSE IF SubSeq(info.header, 1, 4) = <<83,65,80,LF>> THEN 0
    ELSE -1

\* SAP::isRomSupported_static()
SAP_isRomSupported_static(info) ==
    IF info.addr # 0 \/ Len(info.header) < 6 THEN -1
    ELSE IF Len(info.header) >= 7 /\ SubSeq(info.header, 1, 5) = <<83,65,80,CR,LF>> THEN 0
    ELSE IF SubSeq(info.header, 1, 4) = <<83,65,80,LF>> THEN 0
    ELSE -1

\* The fields SAP::loadFieldData() adds for a parsed tag set, in order.
SAP_FieldsOf(tags) ==
    LET up == toupper(tags.type)
    IN  (IF tags.author # <<>> THEN << <<"Author", tags.author>> >> ELSE <<>>)
     \o (IF tags.name # <<>> THEN << <<"Song Title", tags.name>> >> ELSE <<>>)
     \o (IF tags.date # <<>> THEN << <<"Date", tags.date>> >> ELSE <<>>)
     \o << <<"# of Songs", tags.songs>> >>
     \o (IF tags.songs > 1 THEN << <<"Default Song #", tags.def_song>> >> ELSE <<>>)
     \o << <<"Flags", <<tags.ntsc, tags.stereo>> >> >>
     \o << <<"Type", tags.type>> >>
     \o << <<"Fastplay", IF tags.fastplay # 0 THEN tags.fastplay
                         ELSE IF tags.ntsc # 0 THEN 262 ELSE 312>> >>
     \o (IF up \in {66, 68, 83} THEN << <<"Init Address", tags.init_addr>> >>
         ELSE IF up = 67 THEN << <<"Music Address", tags.music_addr>> >>
         ELSE <<>>)
     \o << <<"Player Address", tags.player_addr>> >>
     \o (IF tags.covox_addr # 0 THEN << <<"COVOX Address", tags.covox_addr>> >> ELSE <<>>)

\* SAP::SAP(): read 16 bytes, run the detector on them.
SAP_Construct ==
    /\ sapState = "new"
    /\ sapState' = "ready"
    /\ LET buf == SubSeq(sapBytes, 1, Min(16, Len(sapBytes)))
       IN  IF Len(buf) # 16
           THEN sapFile' = "null" /\ sapIsValid' = FALSE
           ELSE /\ sapIsValid' = (SAP_isRomSupported_static(DetectInfo(buf, NullExt, 0)) >= 0)
                /\ sapFile' = IF sapIsValid' THEN "open" ELSE "null"
    /\ UNCHANGED <<bigEndian, restVars, sapBytes, sapFields, sapTags, sapParses, xdbfVars, detVars>>

\* A call of d->parseTags() on a constructed decoder whose file is open.
SAP_parseTags ==
    /\ sapState = "ready"
    /\ sapFile = "open"
    /\ sapParses < MaxCalls
    /\ sapTags' = parseTags(sapBytes, bigEndian)
    /\ sapParses' = sapParses + 1
    /\ UNCHANGED <<bigEndian, restVars, sapBytes, sapState, sapFile, sapIsValid, sapFields, xdbfVars, detVars>>

\* SAP::loadFieldData()
SAP_loadFieldData ==
    /\ sapState = "ready"
    /\ sapParses < MaxCalls
    /\ IF sapFields # <<>> \/ sapFile = "null" \/ ~sapIsValid
       THEN UNCHANGED <<sapFields, sapTags, sapParses>>
       ELSE LET tags == parseTags(sapBytes, bigEndian)
            IN  /\ sapTags' = tags
                /\ sapParses' = sapParses + 1
                /\ sapFields' = IF tags.tags_read THEN SAP_FieldsOf(tags) ELSE <<>>
    /\ UNCHANGED <<bigEndian, restVars, sapBytes, sapState, sapFile, sapIsValid, xdbfVars, detVars>>

-----------------------------------------------------------------------------
(* SAP: the files the checks run on.                                       *)

\* The decimal digits of n >= 0.
RECURSIVE Dec(_)
Dec(n) == IF n < 10 THEN <<48 + n>> ELSE Dec(n \div 10) \o <<48 + (n % 10)>>

KwAUTHOR == kwds[1].keyword
KwSONGS == kwds[4].keyword
KwDEFSONG == kwds[5].keyword
KwSTEREO == kwds[6].keyword
KwNTSC == kwds[7].keyword
KwTYPE == kwds[8].keyword
KwFASTPLAY == kwds[9].keyword

\* A tag line: the keyword, one space and the parameter (or the keyword alone).
TagLine(kw, param) == IF param = <<>> THEN kw ELSE kw \o <<SP>> \o param

Quoted(str) == <<DQUOTE>> \o str \o <<DQUOTE>>

AuthorNames == { <<70,111,111>> }            \* Foo
SongCounts == {3, 255}
DefSongs == {1, 255}
FastplayParams ==
    { <<51,49,50>>,             \* 312
      <<51,49,120,50>>,         \* 31x2
      <<120>> }                 \* x

LinePool ==
    {TagLine(KwAUTHOR, Quoted(a)) : a \in AuthorNames}
    \cup {TagLine(KwSONGS, Dec(n)) : n \in SongCounts}
    \cup {TagLine(KwDEFSONG, Dec(m)) : m \in DefSongs}
    \cup {TagLine(KwFASTPLAY, p) : p \in FastplayParams}
    \cup {KwNTSC, KwSTEREO}
    \cup {TagLine(KwTYPE, <<66>>), TagLine(KwTYPE, <<66,88>>)}   \* TYPE B, TYPE BX

\* The binary part of a SAP file: it starts with FF FF.
SapBinary == <<EOT, EOT, 0, 32, 2, 32, LF, 1, 0, 7, 96, 0, 0, 0, 0, 0>>

RECURSIVE JoinLines(_, _)
JoinLines(lines, eol) ==
    IF lines = <<>> THEN <<>>
    ELSE Head(lines) \o eol \o JoinLines(Tail(lines), eol)

\* A SAP file: the magic line, the tag lines, the binary part.
\* crlf: every line ends in CR LF; otherwise the magic line ends in CR LF and
\* the tag lines in LF alone, as in the header "SAP\r\nAUTHOR ...\n".
SapFile(lines, crlf) ==
    <<83,65,80,CR,LF>> \o JoinLines(lines, IF crlf THEN <<CR,LF>> ELSE <<LF>>) \o SapBinary

LineSeqs == UNION {[1..n -> LinePool] : n \in 0..MaxLines}

SapFiles ==
    {SapFile(ls, crlf) : ls \in LineSeqs, crlf \in BOOLEAN}
    \cup { <<83,65,80,LF,EOT,EOT>>,                 \* too short for the constructor
           <<82,73,70,70>> \o SapBinary }           \* not a SAP file

InitSAP ==
    /\ RestIdle
    /\ bigEndian \in BOOLEAN
    /\ sapBytes \in SapFiles
    /\ sapState = "new"
    /\ sapFile = "open"
    /\ sapIsValid = FALSE
    /\ sapFields = <<>>
    /\ sapTags = TagData
    /\ sapParses = 0
    /\ XdbfIdle
    /\ DetIdle

NextSAP ==
    \/ SAP_Construct
    \/ SAP_parseTags
    \/ SAP_loadFieldData

SpecSAP == InitSAP /\ [][NextSAP]_vars

-----------------------------------------------------------------------------
(* 32-bit unsigned values are pairs <<hi, lo>> of 16-bit halves, so that   *)
(* sums wrap at 2^32 as uint32_t does.  Fields of on-disk structures are   *)
(* the sequences of their bytes, as they lie in memory without a byteswap. *)

U32(n) == <<n \div 65536, n % 65536>>

U32Add(a, b) ==
    LET lo == a[2] + b[2]
        hi == a[1] + b[1] + (lo \div 65536)
    IN  <<hi % 65536, lo % 65536>>

U32Lt(a, b) == a[1] < b[1] \/ (a[1] = b[1] /\ a[2] < b[2])
U32Le(a, b) == a = b \/ U32Lt(a, b)

\* The value as an integer of the model; only for values below 2^31.
U32Int(a) == a[1] * 65536 + a[2]
U32Small(a) == a[1] < 32768

BE16(v) == <<v \div 256, v % 256>>
BE32(u) == BE16(u[1]) \o BE16(u[2])
BE64(v) == <<0, 0, 0, 0>> \o BE32(U32(v))

be16_to_cpu(b) == b[1] * 256 + b[2]
be32_to_cpu(b) == <<b[1] * 256 + b[2], b[3] * 256 + b[4]>>

\* cpu_to_be16 / cpu_to_be64 of a host value: the bytes it then has in memory.
cpu_to_be16(v) == BE16(v)
cpu_to_be64(v) == BE64(v)

-----------------------------------------------------------------------------
(* IRpFile: a file of `size` bytes.                                        *)

\* file->read(buf, len) at position pos: the number of bytes read.
FileRead(size, pos, len) == IF pos >= size THEN 0 ELSE Min(len, size - pos)

\* file->seekAndRead(addr, buf, len) with a uint32_t address.
seekAndRead(size, addr, len) ==
    IF ~U32Small(addr) THEN 0 ELSE FileRead(size, U32Int(addr), len)

-----------------------------------------------------------------------------
(* XDBF: structures and constants.                                         *)

SizeofXdbfHeader == 24          \* sizeof(XDBF_Header)
SizeofXdbfEntry == 18           \* sizeof(XDBF_Entry)
SizeofXdbfFreeSpaceEntry == 8   \* sizeof(XDBF_Free_Space_Entry)
SizeofXstrHeader == 14          \* sizeof(XDBF_XSTR_Header)
SizeofXstrEntryHeader == 4      \* sizeof(XDBF_XSTR_Entry_Header)
SizeofXstc == 16                \* sizeof(XDBF_XSTC)
SizeofXachHeader == 14          \* sizeof(XDBF_XACH_Header)
SizeofXachEntry == 36           \* sizeof(XDBF_XACH_Entry)
OneMiB == 1048576               \* 1024*1024
XACH_MAX_COUNT == 512

XDBF_MAGIC == <<88, 68, 66, 70>>            \* 'XDBF'
XDBF_VERSION == <<0, 1, 0, 0>>              \* 0x00010000
XDBF_XSTR_MAGIC == <<88, 83, 84, 82>>       \* 'XSTR'
XDBF_XSTR_VERSION == <<0, 0, 0, 1>>
XDBF_XACH_MAGIC == 1480672072               \* 'XACH' as a resource id
XDBF_XSTC_MAGIC == 1481856067               \* 'XSTC' as a resource id

XDBF_SPA_NAMESPACE_METADATA == 1
XDBF_SPA_NAMESPACE_IMAGE == 2
XDBF_SPA_NAMESPACE_STRING_TABLE == 3
XDBF_ID_TITLE == 32768                      \* 0x8000

XDBF_LANGUAGE_UNKNOWN == 0
XDBF_LANGUAGE_ENGLISH == 1
XDBF_LANGUAGE_MAX == 4      \* languages 1 .. XDBF_LANGUAGE_MAX-1 are modelled

\* A null rp_image*; a decoded image is a positive number.
NullImage == 0
\* A null string table; a loaded table is a sequence of more than 14 bytes.
NullTable == <<>>
\* A null entryTable; a loaded one has null = FALSE and its XDBF_Entry records.
NullEntryTable == [null |-> TRUE, entries |-> <<>>]

\* An XDBF_Entry as it lies in the file and in entryTable (not byteswapped).
XDBF_Entry(ns, id, offset, length) ==
    [namespace_id |-> BE16(ns), resource_id |-> BE64(id),
     offset |-> BE32(offset), length |-> BE32(length)]

\* Xbox360_XDBF_Private(q, file, xex)
Xbox360_XDBF_Private(xex) ==
    [state |-> "new",
     file |-> "open",
     isValid |-> FALSE,
     magic |-> <<0, 0, 0, 0>>,
     entry_table_length |-> 0,
     entryTable |-> NullEntryTable,
     data_offset |-> U32(0),
     m_langID |-> XDBF_LANGUAGE_UNKNOWN,
     xex |-> xex,
     strTbl |-> [l \in 0..(XDBF_LANGUAGE_MAX - 1) |-> NullTable],
     map_images |-> <<>>,
     img_icon |-> NullImage,
     fields |-> <<>>]

\* Xbox360_XDBF::isRomSupported_static()
Xbox360_XDBF_isRomSupported_static(info) ==
    IF info.addr # 0 \/ Len(info.header) < SizeofXdbfEntry THEN -1
    ELSE IF /\ SubSeq(info.header, 1, 4) = XDBF_MAGIC
            /\ SubSeq(info.header, 5, 8) = XDBF_VERSION
         THEN 0
    ELSE -1

\* Xbox360_XDBF::init(): the decoder after the constructor, for a file `disk`.
Xbox360_XDBF_init(d, disk) ==
    LET got     == FileRead(disk.size, 0, SizeofXdbfHeader)
        hdr     == SubSeq(disk.header, 1, got)
        failed  == [d EXCEPT !.state = "ready", !.magic = <<0, 0, 0, 0>>, !.file = "null"]
        valid   == Xbox360_XDBF_isRomSupported_static(DetectInfo(hdr, NullExt, 0)) >= 0
        etl     == U32Int(be32_to_cpu(SubSeq(hdr, 9, 12)))
        fstl    == U32Int(be32_to_cpu(SubSeq(hdr, 17, 20)))
        tblSz   == etl * SizeofXdbfEntry
        tblGot  == FileRead(disk.size, SizeofXdbfHeader, tblSz)
        swapped == [d EXCEPT !.state = "ready",
                             !.isValid = TRUE,
                             !.magic = SubSeq(hdr, 1, 4),
                             !.entry_table_length = etl,
                             !.data_offset = U32(SizeofXdbfHeader + tblSz
                                                 + fstl * SizeofXdbfFreeSpaceEntry)]
    IN  IF got # SizeofXdbfHeader THEN failed
        ELSE IF ~valid THEN failed
        ELSE IF tblGot # tblSz
            THEN [swapped EXCEPT !.magic = <<0, 0, 0, 0>>, !.file = "null"]
        ELSE [swapped EXCEPT !.entryTable =
                 [null |-> FALSE, entries |-> SubSeq(disk.table, 1, etl)]]

\* A scan that looks at every entry twice; C3 must tell it from findResource().
RECURSIVE findResourceFrom_Rescan(_, _, _, _, _)
findResourceFrom_Rescan(d, ns, id, i, visited) ==
    IF i > d.entry_table_length THEN [ret |-> 0, visited |-> visited]
    ELSE IF /\ d.entryTable.entries[i].namespace_id = ns
            /\ d.entryTable.entries[i].resource_id = id
         THEN [ret |-> i, visited |-> Append(visited, i)]
    ELSE findResourceFrom_Rescan(d, ns, id, i + 1, visited \o <<i, i>>)

\* The loop of findResource() from entry i on: the entries it examines, in
\* order, and the index of the match (0: none).
RECURSIVE findResourceFrom(_, _, _, _, _)
findResourceFrom(d, ns, id, i, visited) ==
    IF i > d.entry_table_length THEN [ret |-> 0, visited |-> visited]
    ELSE IF /\ d.entryTable.entries[i].namespace_id = ns
            /\ d.entryTable.entries[i].resource_id = id
         THEN [ret |-> i, visited |-> Append(visited, i)]
    ELSE findResourceFrom(d, ns, id, i + 1, Append(visited, i))

\* Xbox360_XDBF_Private::findResource(): ret is the index of the entry found
\* in entryTable, 0 for nullptr.
findResource(d, namespace_id, resource_id) ==
    IF d.entryTable.null THEN [ret |-> 0, visited |-> <<>>]
    ELSE findResourceFrom(d, cpu_to_be16(namespace_id), cpu_to_be64(resource_id), 1, <<>>)

\* The bytes a completed read of entry i's range delivers: the resource the
\* file holds there.  A sum offset + data_offset that wrapped addresses the
\* header and tables at the start of the file, which hold no resource.
EntryData(d, disk, i) ==
    LET off == be32_to_cpu(d.entryTable.entries[i].offset)
    IN  IF U32Lt(U32Add(off, d.data_offset), off) THEN [kind |-> "junk"]
        ELSE disk.payload[i]

\* The decoder state threaded through a call: the private object, the
\* per-key read counters and the reads issued by the call so far.
CountRead(st, key, addr, len, got) ==
    [st EXCEPT !.reads[key] = Min(@ + 1, 2),
               !.io = Append(@, [key |-> key, addr |-> addr, len |-> len, got |-> got])]

\* Xbox360_XDBF_Private::loadStringTable(): ret is the table, NullTable on error.
loadStringTable(st, disk, language_id) ==
    LET d     == st.d
        null  == [st |-> st, ret |-> NullTable]
        f     == findResource(d, XDBF_SPA_NAMESPACE_STRING_TABLE, language_id)
        entry == d.entryTable.entries[f.ret]
        sz    == be32_to_cpu(entry.length)
        addr  == U32Add(be32_to_cpu(entry.offset), d.data_offset)
        got   == seekAndRead(disk.size, addr, U32Int(sz))
        st1   == CountRead(st, <<"str", language_id>>, addr, sz, got)
        vec   == EntryData(d, disk, f.ret)
    IN  IF language_id <= XDBF_LANGUAGE_UNKNOWN \/ language_id >= XDBF_LANGUAGE_MAX THEN null
        ELSE IF d.strTbl[language_id] # NullTable
            THEN [st |-> st, ret |-> d.strTbl[language_id]]
        ELSE IF d.file = "null" \/ ~d.isValid THEN null
        ELSE IF f.ret = 0 THEN null
        ELSE IF U32Le(sz, U32(SizeofXstrHeader)) \/ U32Lt(U32(OneMiB), sz) THEN null
        ELSE IF got # U32Int(sz) THEN [st |-> st1, ret |-> NullTable]
        ELSE IF ~(/\ vec.kind = "bytes"
                  /\ SubSeq(vec.bytes, 1, 4) = XDBF_XSTR_MAGIC
                  /\ SubSeq(vec.bytes, 5, 8) = XDBF_XSTR_VERSION)
            THEN [st |-> st1, ret |-> NullTable]
        ELSE [st |-> [st1 EXCEPT !.d.strTbl[language_id] = vec.bytes], ret |-> vec.bytes]

\* loadImage(): a size check without the upper limit; C14 must tell it from
\* ImageSizeOutOfRange().
ImageSizeOutOfRange_NoMax(length) == U32Lt(length, U32(16))

\* loadImage(): length < 16 || length > 1024*1024
ImageSizeOutOfRange(length) == U32Lt(length, U32(16)) \/ U32Lt(U32(OneMiB), length)

\* RpPng::load() on the bytes read: the decoded image, NullImage on failure.
RpPng_load(buf) == IF buf.kind = "png" /\ buf.ok THEN buf.image ELSE NullImage

\* loadImage() without the look into map_images; C9 must tell it from loadImage().
loadImage_NoCache(st, disk, image_id) ==
    LET d      == st.d
        null   == [st |-> st, ret |-> NullImage]
        f      == findResource(d, XDBF_SPA_NAMESPACE_IMAGE, image_id)
        entry  == d.entryTable.entries[f.ret]
        addr   == U32Add(be32_to_cpu(entry.offset), d.data_offset)
        length == be32_to_cpu(entry.length)
        got    == seekAndRead(disk.size, addr, U32Int(length))
        st1    == CountRead(st, <<"img", image_id>>, addr, length, got)
        img    == RpPng_load(EntryData(d, disk, f.ret))
    IN  IF d.entryTable.null THEN null
        ELSE IF d.file = "null" \/ ~d.isValid THEN null
        ELSE IF f.ret = 0 THEN null
        ELSE IF ImageSizeOutOfRange(length) THEN null
        ELSE IF got # U32Int(length) THEN [st |-> st1, ret |-> NullImage]
        ELSE IF img # NullImage
            THEN [st |-> [st1 EXCEPT !.d.map_images = (image_id :> img) @@ @], ret |-> img]
        ELSE [st |-> st1, ret |-> NullImage]

\* Xbox360_XDBF_Private::loadImage()
loadImage(st, disk, image_id) ==
    LET d      == st.d
        null   == [st |-> st, ret |-> NullImage]
        f      == findResource(d, XDBF_SPA_NAMESPACE_IMAGE, image_id)
        entry  == d.entryTable.entries[f.ret]
        addr   == U32Add(be32_to_cpu(entry.offset), d.data_offset)
        length == be32_to_cpu(entry.length)
        got    == seekAndRead(disk.size, addr, U32Int(length))
        st1    == CountRead(st, <<"img", image_id>>, addr, length, got)
        img    == RpPng_load(EntryData(d, disk, f.ret))
    IN  IF image_id \in DOMAIN d.map_images
            THEN [st |-> st, ret |-> d.map_images[image_id]]
        ELSE IF d.entryTable.null THEN null
        ELSE IF d.file = "null" \/ ~d.isValid THEN null
        ELSE IF f.ret = 0 THEN null
        ELSE IF ImageSizeOutOfRange(length) THEN null
        ELSE IF got # U32Int(length) THEN [st |-> st1, ret |-> NullImage]
        ELSE IF img # NullImage
            THEN [st |-> [st1 EXCEPT !.d.map_images = (image_id :> img) @@ @], ret |-> img]
        ELSE [st |-> st1, ret |-> NullImage]

\* loadIcon(), from the return of loadImage(XDBF_ID_TITLE) on.
loadIcon_set(r) == [st |-> [r.st EXCEPT !.d.img_icon = r.ret], ret |-> r.ret]

\* Xbox360_XDBF_Private::loadIcon()
loadIcon(st, disk) ==
    IF st.d.img_icon # NullImage THEN [st |-> st, ret |-> st.d.img_icon]
    ELSE IF st.d.file = "null" \/ ~st.d.isValid THEN [st |-> st, ret |-> NullImage]
    ELSE IF st.d.entryTable.null THEN [st |-> st, ret |-> NullImage]
    ELSE loadIcon_set(loadImage(st, disk, XDBF_ID_TITLE))

\* dos2unix(): every CR LF pair becomes LF.
RECURSIVE dos2unix(_)
dos2unix(str) ==
    IF str = <<>> THEN <<>>
    ELSE IF Len(str) >= 2 /\ str[1] = CR /\ str[2] = LF
        THEN <<LF>> \o dos2unix(SubSeq(str, 3, Len(str)))
    ELSE <<Head(str)>> \o dos2unix(Tail(str))

\* A record loop that hands out the string without the check of its end
\* against p_end; C13 must tell it from loadStringFrom().
RECURSIVE loadStringFrom_NoBounds(_, _, _, _)
loadStringFrom_NoBounds(vec, string_id, p, pEnd) ==
    IF ~(p < pEnd) THEN <<>>
    ELSE LET length == be16_to_cpu(<<At(vec, p + 2), At(vec, p + 3)>>)
             pStr   == p + SizeofXstrEntryHeader
         IN  IF <<At(vec, p), At(vec, p + 1)>> = string_id
             THEN dos2unix(SubSeq(vec, pStr, Min(pStr + length - 1, Len(vec))))
             ELSE loadStringFrom_NoBounds(vec, string_id, pStr + length, pEnd)

\* The record loop of loadString() from index p on (p is the 1-based index
\* of the byte at pointer p; pEnd that of p_end).  vec holds the table and,
\* from pEnd on, the bytes that lie behind it in memory: the loop reads a
\* record header wherever p < p_end, also one that the table ends within.
RECURSIVE loadStringFrom(_, _, _, _)
loadStringFrom(vec, string_id, p, pEnd) ==
    IF ~(p < pEnd) THEN <<>>
    ELSE LET length == be16_to_cpu(<<At(vec, p + 2), At(vec, p + 3)>>)
             pStr   == p + SizeofXstrEntryHeader
         IN  IF <<At(vec, p), At(vec, p + 1)>> = string_id
             THEN IF pStr + length <= pEnd
                  THEN dos2unix(SubSeq(vec, pStr, pStr + length - 1))
                  ELSE <<>>
             ELSE loadStringFrom(vec, string_id, pStr + length, pEnd)

\* The record headers the loop of loadString() dereferences, from index p
\* on: the index of the first byte of each XDBF_XSTR_Entry_Header whose
\* string_id and length it reads, in order.
RECURSIVE loadStringHeaders(_, _, _, _)
loadStringHeaders(vec, string_id, p, pEnd) ==
    IF ~(p < pEnd) THEN <<>>
    ELSE IF <<At(vec, p), At(vec, p + 1)>> = string_id THEN <<p>>
    ELSE <<p>> \o loadStringHeaders(vec, string_id,
                      p + SizeofXstrEntryHeader
                        + be16_to_cpu(<<At(vec, p + 2), At(vec, p + 3)>>), pEnd)

\* loadString(), once the string table r.ret is at hand (or is not).
loadString_in(r, slack, string_id) ==
    IF r.ret = NullTable THEN [st |-> r.st, ret |-> <<>>]
    ELSE [st |-> r.st,
          ret |-> loadStringFrom(r.ret \o slack, cpu_to_be16(string_id),
                                 SizeofXstrHeader + 1, Len(r.ret) + 1)]

\* Xbox360_XDBF_Private::loadString(): ret is the string, <<>> on error.
loadString(st, disk, language_id, string_id) ==
    IF language_id < 0 \/ language_id >= XDBF_LANGUAGE_MAX
        THEN [st |-> st, ret |-> <<>>]
    ELSE loadString_in(IF st.d.strTbl[language_id] # NullTable
                       THEN [st |-> st, ret |-> st.d.strTbl[language_id]]
                       ELSE loadStringTable(st, disk, language_id),
                       disk.beyond.slack, string_id)

\* getLangID(): the English fallback, r being what loadStringTable returned.
getLangID_english(r) ==
    IF r.ret # NullTable
    THEN [st |-> [r.st EXCEPT !.d.m_langID = XDBF_LANGUAGE_ENGLISH],
          ret |-> XDBF_LANGUAGE_ENGLISH]
    ELSE [st |-> r.st, ret |-> XDBF_LANGUAGE_UNKNOWN]

\* getLangID(): the default language langID of the XSTC, r being what
\* loadStringTable(langID) returned.
getLangID_default(r, disk, langID) ==
    IF r.ret # NullTable
        THEN [st |-> [r.st EXCEPT !.d.m_langID = langID], ret |-> langID]
    ELSE IF langID # XDBF_LANGUAGE_ENGLISH
        THEN getLangID_english(loadStringTable(r.st, disk, XDBF_LANGUAGE_ENGLISH))
    ELSE [st |-> r.st, ret |-> XDBF_LANGUAGE_UNKNOWN]

\* getLangID(): the XSTC lookup, after the system language gave no table.
getLangID_xstc(st, disk) ==
    LET d      == st.d
        unk    == XDBF_LANGUAGE_UNKNOWN
        i      == findResource(d, XDBF_SPA_NAMESPACE_METADATA, XDBF_XSTC_MAGIC).ret
        entry  == d.entryTable.entries[i]
        addr   == U32Add(be32_to_cpu(entry.offset), d.data_offset)
        got    == seekAndRead(disk.size, addr, SizeofXstc)
        st2    == CountRead(st, <<"xstc", 0>>, addr, U32(SizeofXstc), got)
        xstc   == EntryData(d, disk, i)
        langID == xstc.default_language
    IN  IF i = 0 THEN [st |-> st, ret |-> unk]
        ELSE IF be32_to_cpu(entry.length) # U32(SizeofXstc) THEN [st |-> st, ret |-> unk]
        ELSE IF got # SizeofXstc THEN [st |-> st2, ret |-> unk]
        ELSE IF ~(xstc.kind = "xstc" /\ xstc.ok) THEN [st |-> st2, ret |-> unk]
        ELSE IF langID <= unk \/ langID >= XDBF_LANGUAGE_MAX THEN [st |-> st2, ret |-> unk]
        ELSE getLangID_default(loadStringTable(st2, disk, langID), disk, langID)

\* getLangID(): the system language, r being what loadStringTable returned.
getLangID_system(r, disk) ==
    IF r.ret # NullTable
    THEN [st |-> [r.st EXCEPT !.d.m_langID = sysLang], ret |-> sysLang]
    ELSE getLangID_xstc(r.st, disk)

\* Xbox360_XDBF_Private::getLangID(): ret is the language id.
getLangID(st, disk) ==
    IF st.d.m_langID # XDBF_LANGUAGE_UNKNOWN THEN [st |-> st, ret |-> st.d.m_langID]
    ELSE IF sysLang > XDBF_LANGUAGE_UNKNOWN /\ sysLang < XDBF_LANGUAGE_MAX
        THEN getLangID_system(loadStringTable(st, disk, sysLang), disk)
    ELSE getLangID_xstc(st, disk)

\* entry count of addFields_achievements(): xach_count after the two checks.
XachCount(achievement_count, length) ==
    LET avail == (length - SizeofXachHeader) \div SizeofXachEntry
    IN  IF achievement_count > XACH_MAX_COUNT THEN XACH_MAX_COUNT
        ELSE IF achievement_count > avail THEN avail
        ELSE achievement_count

\* One row of the list: the icon, the id, the description, the gamerscore.
\* inBuf tells whether the record lay within xach_buf.
XachRowOf(st, icon, p, desc, inBuf) ==
    [st |-> st,
     rows |-> <<[id |-> p.achievement_id, desc |-> desc,
                 score |-> p.gamerscore, inBuf |-> inBuf]>>,
     icons |-> <<icon>>]

\* The description: title and locked description, joined by a newline.
XachRow_desc(icon, desc, rl, p, inBuf) ==
    XachRowOf(rl.st, icon, p,
              IF rl.ret # <<>> /\ desc # <<>> THEN desc \o <<LF>> \o rl.ret
              ELSE IF rl.ret # <<>> THEN rl.ret
              ELSE desc,
              inBuf)

XachRow_locked(icon, rd, disk, p, langID, inBuf) ==
    XachRow_desc(icon, rd.ret, loadString(rd.st, disk, langID, p.locked_desc_id), p, inBuf)

\* The row, ri being what loadImage(p->image_id) returned.
XachRow_strings(ri, disk, p, langID, inBuf) ==
    IF langID # XDBF_LANGUAGE_UNKNOWN
    THEN XachRow_locked(ri.ret, loadString(ri.st, disk, langID, p.title_id),
                        disk, p, langID, inBuf)
    ELSE XachRowOf(ri.st, ri.ret, p,
                   <<p.title_id, p.locked_desc_id, p.unlocked_desc_id>>, inBuf)

\* One pass of the row loop of addFields_achievements(), for record i.  A
\* record past the end of xach_buf is read from memory that is not part of
\* the buffer: the read faults, or it delivers what that memory holds
\* (disk.beyond).
XachRow(st, disk, xach, avail, langID, i) ==
    LET p == IF i > avail THEN disk.beyond.rec ELSE xach.recs[i]
    IN  IF i > avail /\ disk.beyond.fault
            THEN [st |-> [st EXCEPT !.d.state = "crashed"], rows |-> <<>>, icons |-> <<>>]
        ELSE XachRow_strings(loadImage(st, disk, p.image_id), disk, p, langID, i <= avail)

\* The rows of two consecutive runs of the loop.
XachRows_cat(r1, r2) ==
    [st |-> r2.st, rows |-> r1.rows \o r2.rows, icons |-> r1.icons \o r2.icons]

\* The row loop for records lo..hi in order: the rows and icons it fills in.
RECURSIVE XachRows(_, _, _, _, _, _, _)
RECURSIVE XachRows_then(_, _, _, _, _, _, _)
XachRows(st, disk, xach, avail, langID, lo, hi) ==
    IF lo > hi \/ st.d.state = "crashed" THEN [st |-> st, rows |-> <<>>, icons |-> <<>>]
    ELSE IF lo = hi THEN XachRow(st, disk, xach, avail, langID, lo)
    ELSE XachRows_then(XachRows(st, disk, xach, avail, langID, lo, (lo + hi) \div 2),
                       disk, xach, avail, langID, (lo + hi) \div 2 + 1, hi)

\* The loop for lo..hi after the run r1 of the records before lo.
XachRows_then(r1, disk, xach, avail, langID, lo, hi) ==
    XachRows_cat(r1, XachRows(r1.st, disk, xach, avail, langID, lo, hi))

\* addFields_achievements(): fields->addField_listData_icons()
addFields_achievements_add(rows) ==
    IF rows.st.d.state = "crashed" THEN [st |-> rows.st, ret |-> 0]
    ELSE [st |-> [rows.st EXCEPT !.d.fields =
                     Append(@, [name |-> "Achievements",
                                rows |-> rows.rows, icons |-> rows.icons])],
          ret |-> 0]

\* addFields_achievements(): the loop, rl being what getLangID() returned.
addFields_achievements_rows(rl, disk, xach, avail, count) ==
    addFields_achievements_add(XachRows(rl.st, disk, xach, avail, rl.ret, 1, count))

\* Xbox360_XDBF_Private::addFields_achievements(): ret is its return code.
addFields_achievements(st, disk) ==
    LET d      == st.d
        i      == findResource(d, XDBF_SPA_NAMESPACE_METADATA, XDBF_XACH_MAGIC).ret
        entry  == d.entryTable.entries[i]
        addr   == U32Add(be32_to_cpu(entry.offset), d.data_offset)
        length == be32_to_cpu(entry.length)
        maxSz  == SizeofXachHeader + SizeofXachEntry * XACH_MAX_COUNT
        got    == seekAndRead(disk.size, addr, U32Int(length))
        st1    == CountRead(st, <<"xach", 0>>, addr, length, got)
        xach   == EntryData(d, disk, i)
    IN  IF d.entryTable.null THEN [st |-> st, ret |-> 1]
        ELSE IF d.file = "null" \/ ~d.isValid THEN [st |-> st, ret |-> 2]
        ELSE IF i = 0 THEN [st |-> st, ret |-> 3]
        ELSE IF U32Lt(length, U32(SizeofXachHeader)) \/ U32Lt(U32(maxSz), length)
            THEN [st |-> st, ret |-> 4]
        ELSE IF got # U32Int(length) THEN [st |-> st1, ret |-> 5]
        ELSE IF ~(xach.kind = "xach" /\ xach.magicOk) THEN [st |-> st1, ret |-> 6]
        ELSE addFields_achievements_rows(
                 getLangID(st1, disk), disk, xach,
                 (U32Int(length) - SizeofXachHeader) \div SizeofXachEntry,
                 XachCount(xach.achievement_count, U32Int(length)))

\* loadFieldData(): fields->addField_string("Title", ...), rt being what
\* loadString(langID, XDBF_ID_TITLE) returned.
loadFieldData_title(rt) ==
    [rt.st EXCEPT !.d.fields =
        Append(@, [name |-> "Title",
                   value |-> IF rt.ret # <<>> THEN rt.ret
                             ELSE <<85, 110, 107, 110, 111, 119, 110>>])]

\* loadFieldData(): return static_cast<int>(d->fields->count())
loadFieldData_count(ra) == [st |-> ra.st, ret |-> Len(ra.st.d.fields)]

\* loadFieldData(): the parse, rl being what getLangID() returned.
loadFieldData_parse(rl, disk) ==
    loadFieldData_count(
        addFields_achievements(
            IF rl.st.d.xex THEN rl.st
            ELSE loadFieldData_title(loadString(rl.st, disk, rl.ret, XDBF_ID_TITLE)),
            disk))

\* loadFieldData() without the check for fields already loaded; C10 must
\* tell it from loadFieldData().
Xbox360_XDBF_loadFieldData_NoGuard(st, disk) ==
    IF st.d.file = "null" THEN [st |-> st, ret |-> -9]
    ELSE IF ~st.d.isValid THEN [st |-> st, ret |-> -5]
    ELSE IF st.d.magic # XDBF_MAGIC THEN [st |-> st, ret |-> 0]
    ELSE loadFieldData_parse(
             getLangID([st EXCEPT !.reads[<<"parse", 0>>] = Min(@ + 1, 2)], disk), disk)

\* Xbox360_XDBF::loadFieldData(): ret is its return value.  The counter
\* "parse" counts the runs that got past the checks.
Xbox360_XDBF_loadFieldData(st, disk) ==
    IF st.d.fields # <<>> THEN [st |-> st, ret |-> 0]
    ELSE IF st.d.file = "null" THEN [st |-> st, ret |-> -9]       \* -EBADF
    ELSE IF ~st.d.isValid THEN [st |-> st, ret |-> -5]            \* -EIO
    ELSE IF st.d.magic # XDBF_MAGIC THEN [st |-> st, ret |-> 0]
    ELSE loadFieldData_parse(
             getLangID([st EXCEPT !.reads[<<"parse", 0>>] = Min(@ + 1, 2)], disk), disk)

\* loadInternalImage(): return (*pImage != nullptr ? 0 : -EIO)
loadInternalImage_ret(r) ==
    [st |-> r.st, ret |-> IF r.ret # NullImage THEN 0 ELSE -5, image |-> r.ret]

\* Xbox360_XDBF::loadInternalImage(IMG_INT_ICON, pImage): ret is the return
\* value, image what *pImage holds afterwards.
Xbox360_XDBF_loadInternalImage(st, disk) ==
    IF st.d.img_icon # NullImage THEN [st |-> st, ret |-> 0, image |-> st.d.img_icon]
    ELSE IF st.d.file = "null" THEN [st |-> st, ret |-> -9, image |-> NullImage]
    ELSE IF ~st.d.isValid THEN [st |-> st, ret |-> -5, image |-> NullImage]
    ELSE loadInternalImage_ret(loadIcon(st, disk))

\* getGameTitle(), rl being what getLangID() returned.
getGameTitle_string(rl, disk) == loadString(rl.st, disk, rl.ret, XDBF_ID_TITLE)

\* Xbox360_XDBF::getGameTitle()
Xbox360_XDBF_getGameTitle(st, disk) == getGameTitle_string(getLangID(st, disk), disk)

-----------------------------------------------------------------------------
(* XDBF files.  A file is described by what it holds in each of six        *)
(* resources and by how its header and entry table are damaged, if at all. *)

ImageIds == {0, 1, XDBF_ID_TITLE}
ReadKeys == {<<"str", l>> : l \in 1..(XDBF_LANGUAGE_MAX - 1)}
            \cup {<<"img", i>> : i \in ImageIds}
            \cup {<<"xstc", 0>>, <<"xach", 0>>, <<"parse", 0>>}

\* An XSTR string table: header, then (id, length, bytes) records.
XstrRecord(id, str) == BE16(id) \o BE16(Len(str)) \o str
StrTable(language_id) ==
    LET recs == XstrRecord(XDBF_ID_TITLE, <<84, 48 + language_id>>)
                \o XstrRecord(1, <<65>>)
                \o XstrRecord(2, <<76, CR, LF, 77>>)
    IN  XDBF_XSTR_MAGIC \o XDBF_XSTR_VERSION \o BE32(U32(Len(recs))) \o BE16(3) \o recs

\* The kinds of string table that load.
XstrLoadable == {"ok", "overrun", "ragged"}

\* The strings of a table of the given kind, record by record: the id, the
\* string with UNIX line endings, and whether the record lies within the
\* table ("overrun": the last record declares 10 bytes and has 4).
XstrStrings(language_id, kind) ==
    <<[id |-> XDBF_ID_TITLE, unix |-> <<84, 48 + language_id>>, fits |-> TRUE],
      [id |-> 1, unix |-> <<65>>, fits |-> TRUE],
      [id |-> 2, unix |-> <<76, LF, 77>>, fits |-> kind # "overrun"]>>

\* The bytes of a table of the given kind ("ragged": one more byte follows
\* the last record).
XstrBytes(language_id, kind) ==
    CASE kind = "badmagic" -> <<0>> \o Tail(StrTable(language_id))
      [] kind = "overrun" ->
            SubSeq(StrTable(language_id), 1, Len(StrTable(language_id)) - 6)
            \o BE16(10) \o <<76, CR, LF, 77>>
      [] kind = "ragged" -> StrTable(language_id) \o <<0>>
      [] OTHER -> StrTable(language_id)

XachRecord(n) ==
    [achievement_id |-> n, image_id |-> 1, title_id |-> 1, locked_desc_id |-> 2,
     unlocked_desc_id |-> 3, gamerscore |-> 10 * n]
ZeroRecord ==
    [achievement_id |-> 0, image_id |-> 0, title_id |-> 0, locked_desc_id |-> 0,
     unlocked_desc_id |-> 0, gamerscore |-> 0]
XachTable(achievement_count, nrecs) ==
    [kind |-> "xach", magicOk |-> TRUE, achievement_count |-> achievement_count,
     recs |-> [n \in 1..nrecs |-> XachRecord(n)]]
XachLength(nrecs) == SizeofXachHeader + SizeofXachEntry * nrecs

Item(ns, id, len, where, data) ==
    [ns |-> ns, id |-> id, len |-> len, where |-> where, data |-> data]

DiskConfig ==
    [xstc : {"none", "ok"},
     xach : {"none", "two", "short", "over"},
     str1 : {"none", "ok", "badmagic", "past"},
     str2 : {"none", "ok"},
     img  : {"none", "ok", "undecodable", "partial", "wrap"},
     img1 : {"none", "ok", "undecodable"},
     ctor : {"ok", "shortheader", "badmagic", "truncated"}]
DefaultConfig ==
    [xstc |-> "ok", xach |-> "two", str1 |-> "ok", str2 |-> "none",
     img |-> "ok", img1 |-> "ok", ctor |-> "ok"]
\* The sound file, the files that differ from it in one resource, and those
\* that differ from it in the language resources only.
\* The files with one resource of a length at or beyond a limit of its kind:
\* "tiny" is the largest length below the range, "huge" the smallest above
\* it, "max" the largest within.
SizeConfigs ==
    {[DefaultConfig EXCEPT ![k] = v] :
        k \in {"xach", "str1", "img"}, v \in {"tiny", "huge", "max"}}
DiskConfigs ==
    {c \in DiskConfig :
        \/ Cardinality({k \in DOMAIN c : c[k] # DefaultConfig[k]}) <= 1
        \/ \A k \in DOMAIN c \ {"xstc", "str1", "str2"} : c[k] = DefaultConfig[k]}
    \cup SizeConfigs

\* The length a resource of the given kind declares at a limit.
LimitLength(kind, min, max) ==
    CASE kind = "tiny" -> min - 1
      [] kind = "huge" -> max + 1
      [] kind = "max" -> max

DiskItems(c) ==
    (IF c.xstc = "none" THEN <<>>
     ELSE <<Item(XDBF_SPA_NAMESPACE_METADATA, XDBF_XSTC_MAGIC, SizeofXstc, "in",
                 [kind |-> "xstc", ok |-> TRUE,
                  default_language |-> XDBF_LANGUAGE_ENGLISH])>>)
    \o (IF c.xach = "none" THEN <<>>
        ELSE <<Item(XDBF_SPA_NAMESPACE_METADATA, XDBF_XACH_MAGIC,
                    IF c.xach \in {"tiny", "huge", "max"}
                    THEN LimitLength(c.xach, SizeofXachHeader, XachLength(XACH_MAX_COUNT))
                    ELSE XachLength(IF c.xach = "two" THEN 2 ELSE 1), "in",
                    IF c.xach \in {"tiny", "huge", "max"} THEN [kind |-> "junk"]
                    ELSE IF c.xach = "two" THEN XachTable(2, 2)
                    ELSE IF c.xach = "short" THEN XachTable(3, 1)
                    ELSE XachTable(XACH_MAX_COUNT + 88, 1))>>)
    \o (IF c.str1 = "none" THEN <<>>
        ELSE IF c.str1 \in {"tiny", "huge", "max"}
        THEN <<Item(XDBF_SPA_NAMESPACE_STRING_TABLE, 1,
                    LimitLength(c.str1, SizeofXstrHeader + 1, OneMiB), "in",
                    [kind |-> "junk"])>>
        ELSE <<Item(XDBF_SPA_NAMESPACE_STRING_TABLE, 1, Len(XstrBytes(1, c.str1)),
                    IF c.str1 = "past" THEN "past" ELSE "in",
                    [kind |-> "bytes", bytes |-> XstrBytes(1, c.str1)])>>)
    \o (IF c.str2 = "none" THEN <<>>
        ELSE <<Item(XDBF_SPA_NAMESPACE_STRING_TABLE, 2, Len(XstrBytes(2, c.str2)), "in",
                    [kind |-> "bytes", bytes |-> XstrBytes(2, c.str2)])>>)
    \o (IF c.img = "none" THEN <<>>
        ELSE <<Item(XDBF_SPA_NAMESPACE_IMAGE, XDBF_ID_TITLE,
                    IF c.img \in {"tiny", "huge", "max"}
                    THEN LimitLength(c.img, 16, OneMiB) ELSE 16,
                    IF c.img \in {"partial", "wrap"} THEN c.img ELSE "in",
                    [kind |-> "png", ok |-> (c.img \in {"ok", "max"}), image |-> 1])>>)
    \o (IF c.img1 = "none" THEN <<>>
        ELSE <<Item(XDBF_SPA_NAMESPACE_IMAGE, 1, 16, "in",
                    [kind |-> "png", ok |-> (c.img1 = "ok"), image |-> 2])>>)

\* Bytes of the items before item i that lie in the file.
RECURSIVE InFile(_, _)
InFile(items, i) ==
    IF i <= 1 THEN 0
    ELSE InFile(items, i - 1)
         + (IF items[i - 1].where = "in" THEN items[i - 1].len ELSE 0)

\* What memory past the end of a buffer can hold.
Beyonds(c) ==
    IF c.xach = "over" /\ c.ctor = "ok"
    THEN {[fault |-> TRUE, rec |-> ZeroRecord, slack |-> <<0, 0, 0>>],
          [fault |-> FALSE, rec |-> ZeroRecord, slack |-> <<0, 0, 0>>],
          [fault |-> FALSE, rec |-> XachRecord(1), slack |-> <<0, 0, 0>>]}
    ELSE IF c.str1 = "ragged" \/ c.str2 = "ragged"
    THEN {[fault |-> FALSE, rec |-> ZeroRecord, slack |-> sl] :
             sl \in {<<0, 0, 0>>, <<3, 0, 1>>, <<2, 0, 0>>, <<255, 255, 255>>}}
    ELSE {[fault |-> FALSE, rec |-> ZeroRecord, slack |-> <<0, 0, 0>>]}

Disk(c, beyond) ==
    LET items   == DiskItems(c)
        etl     == Len(items)
        dataOff == SizeofXdbfHeader + etl * SizeofXdbfEntry + SizeofXdbfFreeSpaceEntry
        total   == InFile(items, etl + 1)
        offset(i) ==
            IF items[i].where = "in" THEN U32(InFile(items, i))
            ELSE IF items[i].where = "past" THEN U32(total + 16)
            ELSE IF items[i].where = "partial" THEN U32(total - 8)
            ELSE <<65535, 65536 - dataOff>>
    IN  [size    |-> IF c.ctor = "shortheader" THEN 10
                     ELSE IF c.ctor = "truncated"
                         THEN SizeofXdbfHeader + etl * SizeofXdbfEntry - 5
                     ELSE dataOff + total,
         header  |-> (IF c.ctor = "badmagic" THEN <<88, 68, 66, 71>> ELSE XDBF_MAGIC)
                     \o XDBF_VERSION \o BE32(U32(etl)) \o BE32(U32(etl))
                     \o BE32(U32(1)) \o BE32(U32(1)),
         table   |-> [i \in 1..etl |->
                         XDBF_Entry(items[i].ns, items[i].id, offset(i), U32(items[i].len))],
         payload |-> [i \in 1..etl |->
                         IF items[i].where = "in" THEN items[i].data
                         ELSE [kind |-> "junk"]],
         beyond  |-> beyond,
         xstr    |-> [l \in 1..(XDBF_LANGUAGE_MAX - 1) |->
                         LET kind == IF l = 1 THEN c.str1 ELSE IF l = 2 THEN c.str2 ELSE "none"
                         IN  [loadable |-> c.ctor = "ok" /\ kind \in XstrLoadable,
                              strings |-> XstrStrings(l, kind)]]]

SysLangs == {1, 2}

-----------------------------------------------------------------------------
(* The XDBF decoder: one instance on one file.                             *)

NoCall == [op |-> "none", arg |-> <<>>, ret |-> <<>>, io |-> <<>>, visited |-> <<>>]
XdbfSt == [d |-> xdbf, reads |-> xdbfReads, io |-> <<>>]

\* The instance after a call that returned r.
XdbfReturn(op, arg, r) ==
    /\ xdbf' = r.st.d
    /\ xdbfReads' = r.st.reads
    /\ xdbfCall' = [op |-> op, arg |-> arg, ret |-> r.ret, io |-> r.st.io,
                    visited |-> <<>>]
    /\ UNCHANGED <<bigEndian, restVars, sapVars, detVars, sysLang, xdbfDisk>>

XDBF_Construct ==
    /\ xdbf.state = "new"
    /\ xdbf' = Xbox360_XDBF_init(xdbf, xdbfDisk)
    /\ xdbfCall' = [NoCall EXCEPT !.op = "init"]
    /\ UNCHANGED <<bigEndian, restVars, sapVars, detVars, sysLang, xdbfDisk, xdbfReads>>

XDBF_findResource ==
    /\ xdbf.state = "ready"
    /\ \E q \in {<<XDBF_SPA_NAMESPACE_METADATA, XDBF_XSTC_MAGIC>>,
                 <<XDBF_SPA_NAMESPACE_METADATA, XDBF_XACH_MAGIC>>}
                \cup {<<XDBF_SPA_NAMESPACE_STRING_TABLE, l>> : l \in 1..(XDBF_LANGUAGE_MAX - 1)}
                \cup {<<XDBF_SPA_NAMESPACE_IMAGE, i>> : i \in ImageIds} :
          LET r == findResource(xdbf, q[1], q[2])
          IN  xdbfCall' = [op |-> "findResource", arg |-> q, ret |-> r.ret,
                           io |-> <<>>, visited |-> r.visited]
    /\ UNCHANGED <<bigEndian, restVars, sapVars, detVars, sysLang, xdbfDisk, xdbf, xdbfReads>>

XDBF_loadFieldData ==
    /\ xdbf.state = "ready"
    /\ XdbfReturn("loadFieldData", <<>>, Xbox360_XDBF_loadFieldData(XdbfSt, xdbfDisk))

XDBF_loadInternalImage ==
    /\ xdbf.state = "ready"
    /\ XdbfReturn("loadInternalImage", <<>>, Xbox360_XDBF_loadInternalImage(XdbfSt, xdbfDisk))

XDBF_getGameTitle ==
    /\ xdbf.state = "ready"
    /\ XdbfReturn("getGameTitle", <<>>, Xbox360_XDBF_getGameTitle(XdbfSt, xdbfDisk))

\* Xbox360_XDBF_Private::loadString(), as loadFieldData(), getGameTitle()
\* and addFields_achievements() call it.
XDBF_loadString ==
    /\ xdbf.state = "ready"
    /\ \E l \in 0..XDBF_LANGUAGE_MAX : \E id \in {XDBF_ID_TITLE, 1, 2, 3} :
          XdbfReturn("loadString", <<l, id>>, loadString(XdbfSt, xdbfDisk, l, id))

\* The files of the string lookups: every kind of table in languages 1 and 2.
XstrConfigs ==
    {[DefaultConfig EXCEPT !.str1 = s1, !.str2 = s2, !.ctor = ct] :
        s1 \in {"none", "ok", "badmagic", "past", "overrun", "ragged"},
        s2 \in {"none", "ok", "overrun"},
        ct \in {"ok", "truncated"}}

InitXSTR ==
    /\ RestIdle
    /\ bigEndian = FALSE
    /\ SapIdle
    /\ DetIdle
    /\ sysLang = XDBF_LANGUAGE_ENGLISH
    /\ \E c \in XstrConfigs : \E b \in Beyonds(c) : xdbfDisk = Disk(c, b)
    /\ xdbf = Xbox360_XDBF_Private(FALSE)
    /\ xdbfReads = [k \in ReadKeys |-> 0]
    /\ xdbfCall = NoCall

NextXSTR ==
    \/ XDBF_Construct
    \/ XDBF_loadString

SpecXSTR == InitXSTR /\ [][NextXSTR]_vars

InitXDBF ==
    /\ RestIdle
    /\ bigEndian = FALSE
    /\ SapIdle
    /\ DetIdle
    /\ sysLang \in SysLangs
    /\ \E c \in DiskConfigs : \E b \in Beyonds(c) : xdbfDisk = Disk(c, b)
    /\ \E xex \in BOOLEAN : xdbf = Xbox360_XDBF_Private(xex)
    /\ xdbfReads = [k \in ReadKeys |-> 0]
    /\ xdbfCall = NoCall

NextXDBF ==
    \/ XDBF_Construct
    \/ XDBF_findResource
    \/ XDBF_loadFieldData
    \/ XDBF_loadInternalImage
    \/ XDBF_getGameTitle

SpecXDBF == InitXDBF /\ [][NextXDBF]_vars

-----------------------------------------------------------------------------
(* Detectors of the other formats.                                         *)

SizeofXex2Header == 24          \* sizeof(XEX2_Header)
SizeofXbeHeader == 376          \* sizeof(XBE_Header)
XEX2_MAGIC == <<88, 69, 88, 50>>            \* 'XEX2'
XBE_MAGIC == <<88, 66, 69, 72>>             \* 'XBEH'

\* Xbox360_XEX::isRomSupported_static()
Xbox360_XEX_isRomSupported_static(info) ==
    IF info.addr # 0 \/ Len(info.header) < SizeofXex2Header THEN -1
    ELSE IF SubSeq(info.header, 1, 4) = XEX2_MAGIC THEN 0
    ELSE -1

\* Xbox_XBE::isRomSupported_static()
Xbox_XBE_isRomSupported_static(info) ==
    IF info.addr # 0 \/ Len(info.header) < SizeofXbeHeader THEN -1
    ELSE IF SubSeq(info.header, 1, 4) = XBE_MAGIC THEN 0
    ELSE -1

ROM_TYPE_SMDH == 0
ROM_TYPE_3DSX == 1
ROM_TYPE_CCI == 2
ROM_TYPE_eMMC == 3
ROM_TYPE_CIA == 4

N3DS_MinHeader == 512                   \* info->header.size < 512
SizeofCiaHeader == 8224                 \* sizeof(N3DS_CIA_Header_t), 0x2020
OffsetofCiaContentIndex == 32           \* offsetof(N3DS_CIA_Header_t, content_index)
SizeofSmdhHeaderAndIcon == 14016        \* sizeof(N3DS_SMDH_Header_t) + sizeof(N3DS_SMDH_Icon_t)
Sizeof3dsxHeader == 44                  \* sizeof(N3DS_3DSX_Header_t)
N3DS_NCSD_NOSIG_HEADER_ADDRESS == 256   \* 0x100
OffsetofNcsdCryptType == 24             \* offsetof(N3DS_NCSD_Header_NoSig_t, emmc_part_tbl.crypt_type)
N3DS_SMDH_HEADER_MAGIC == <<83, 77, 68, 72>>    \* "SMDH"
N3DS_3DSX_HEADER_MAGIC == <<51, 68, 83, 88>>    \* "3DSX"
N3DS_NCSD_HEADER_MAGIC == <<78, 67, 83, 68>>    \* "NCSD"
crypt_cci == <<0, 0, 0, 0, 0, 0, 0, 0>>
crypt_emmc_old == <<1, 2, 2, 2, 2, 0, 0, 0>>
crypt_emmc_new == <<1, 2, 2, 2, 3, 0, 0, 0>>
DotCia == <<46, 99, 105, 97>>                   \* ".cia"

le16_to_cpu(b) == b[2] * 256 + b[1]
le32_to_cpu(b) == <<b[4] * 256 + b[3], b[2] * 256 + b[1]>>
LE16(v) == <<v % 256, v \div 256>>
LE32(u) == LE16(u[2]) \o LE16(u[1])

\* Nintendo3DSPrivate::toNext64() on a uint32_t
toNext64(val) ==
    LET s == U32Add(val, U32(63))
    IN  <<s[1], s[2] - (s[2] % 64)>>

\* The n bytes of the header at byte offset off.
HeaderField(info, off, n) == SubSeq(info.header, off + 1, off + n)

\* le32_to_cpu((uint32_t)cia_header->content_size): the cast keeps the low
\* half of the 64-bit value as the build reads it from memory.
CiaContentSize32(info, be) ==
    le32_to_cpu(HeaderField(info, IF be THEN 28 ELSE 24, 4))

\* Nintendo3DS::isRomSupported_static(): the CIA check.
N3DS_isCia(info, be) ==
    /\ info.ext # NullExt
    /\ Len(info.header) > OffsetofCiaContentIndex
    /\ strcasecmpEq(info.ext, DotCia)
    /\ le32_to_cpu(HeaderField(info, 0, 4)) = U32(SizeofCiaHeader)
    /\ le16_to_cpu(HeaderField(info, 4, 2)) = 0
    /\ le16_to_cpu(HeaderField(info, 6, 2)) = 0
    /\ LET sz_min ==
              U32Add(U32Add(U32Add(U32Add(U32Add(
                  toNext64(le32_to_cpu(HeaderField(info, 0, 4))),
                  toNext64(le32_to_cpu(HeaderField(info, 8, 4)))),
                  toNext64(le32_to_cpu(HeaderField(info, 12, 4)))),
                  toNext64(le32_to_cpu(HeaderField(info, 16, 4)))),
                  toNext64(CiaContentSize32(info, be))),
                  toNext64(le32_to_cpu(HeaderField(info, 20, 4))))
       IN  U32Le(sz_min, U32(info.szFile))

\* Nintendo3DS::isRomSupported_static()
Nintendo3DS_isRomSupported_static(info, be) ==
    LET crypt == HeaderField(info, N3DS_NCSD_NOSIG_HEADER_ADDRESS + OffsetofNcsdCryptType, 8)
    IN  IF info.addr # 0 \/ Len(info.header) < N3DS_MinHeader THEN -1
        ELSE IF N3DS_isCia(info, be) THEN ROM_TYPE_CIA
        ELSE IF /\ HeaderField(info, 0, 4) = N3DS_SMDH_HEADER_MAGIC
                /\ info.szFile >= SizeofSmdhHeaderAndIcon
            THEN ROM_TYPE_SMDH
        ELSE IF /\ HeaderField(info, 0, 4) = N3DS_3DSX_HEADER_MAGIC
                /\ info.szFile >= Sizeof3dsxHeader
            THEN ROM_TYPE_3DSX
        ELSE IF /\ HeaderField(info, N3DS_NCSD_NOSIG_HEADER_ADDRESS, 4) = N3DS_NCSD_HEADER_MAGIC
                /\ crypt = crypt_cci
            THEN ROM_TYPE_CCI
        ELSE IF /\ HeaderField(info, N3DS_NCSD_NOSIG_HEADER_ADDRESS, 4) = N3DS_NCSD_HEADER_MAGIC
                /\ crypt \in {crypt_emmc_old, crypt_emmc_new}
            THEN ROM_TYPE_eMMC
        ELSE -1

-----------------------------------------------------------------------------
(* Detection inputs: headers of every format, sound and damaged.           *)

Zeros(n) == [i \in 1..n |-> 0]
PadTo(bytes, n) == bytes \o Zeros(n - Len(bytes))

\* A Nintendo 3DS header: CIA size fields at the front (content_size as its
\* low and high 32-bit halves), optionally an NCSD header at 0x100.
N3dsHeader(first4, cert, ticket, tmd, meta, contentLo, contentHi, ncsd, crypt) ==
    PadTo(first4 \o LE16(0) \o LE16(0) \o LE32(cert) \o LE32(ticket) \o LE32(tmd)
          \o LE32(meta) \o LE32(contentLo) \o LE32(contentHi),
          N3DS_NCSD_NOSIG_HEADER_ADDRESS)
    \o PadTo(PadTo(IF ncsd THEN N3DS_NCSD_HEADER_MAGIC ELSE <<>>, OffsetofNcsdCryptType)
             \o crypt, N3DS_MinHeader - N3DS_NCSD_NOSIG_HEADER_ADDRESS)

\* Declared CIA sizes <<cert, content low half, content high half>>: plain,
\* a cert chain size that rounds up to 2^32, a content size of 2^32 and more.
CiaSizes ==
    {<<U32(2560), U32(4096), U32(0)>>,
     <<<<65535, 65473>>, U32(4096), U32(0)>>,
     <<U32(2560), U32(0), U32(1)>>,
     <<U32(2560), <<65535, 65535>>, U32(0)>>}
CiaFileSizes == {8256, 20000}
CiaHeaders ==
    {N3dsHeader(LE32(U32(hs)), z[1], U32(848), U32(2868), U32(0), z[2], z[3], ncsd, crypt_cci) :
        hs \in {SizeofCiaHeader, SizeofCiaHeader - 32}, z \in CiaSizes, ncsd \in BOOLEAN}

N3dsProbes ==
    {DetectInfo(h, ext, sz) : h \in CiaHeaders, ext \in {DotCia, <<46, 51, 100, 115>>},
                              sz \in CiaFileSizes}
    \cup {DetectInfo(h, <<46, 67, 73, 65>>, 20000) :
             h \in {N3dsHeader(LE32(U32(SizeofCiaHeader)), U32(2560), U32(848), U32(2868),
                               U32(0), U32(4096), U32(0), FALSE, crypt_cci)}}
    \cup {DetectInfo(N3dsHeader(m, U32(0), U32(0), U32(0), U32(0), U32(0), U32(0), FALSE, crypt_cci),
                     NullExt, sz) :
             m \in {N3DS_SMDH_HEADER_MAGIC, N3DS_3DSX_HEADER_MAGIC},
             sz \in {Sizeof3dsxHeader - 1, Sizeof3dsxHeader,
                     SizeofSmdhHeaderAndIcon - 1, SizeofSmdhHeaderAndIcon}}
    \cup {DetectInfo(N3dsHeader(<<0, 0, 0, 0>>, U32(0), U32(0), U32(0), U32(0), U32(0), U32(0), TRUE, c),
                     <<46, 51, 100, 115>>, 20000) :
             c \in {crypt_cci, crypt_emmc_old, crypt_emmc_new, <<9, 9, 9, 9, 9, 9, 9, 9>>}}
    \cup {DetectInfo(Zeros(N3DS_MinHeader - 1), DotCia, 20000)}

OtherProbes ==
    {DetectInfo(h, NullExt, 0) :
        h \in {PadTo(<<83, 65, 80, CR, LF>>, 16), <<83, 65, 80, CR, LF, 65>>,
               <<83, 65, 80, LF, 65, 85>>, <<83, 65, 80, LF, 65>>,
               PadTo(XDBF_MAGIC \o XDBF_VERSION, SizeofXdbfHeader),
               PadTo(XDBF_MAGIC \o <<0, 2, 0, 0>>, SizeofXdbfHeader),
               PadTo(XDBF_MAGIC \o XDBF_VERSION, SizeofXdbfEntry - 1),
               PadTo(XEX2_MAGIC, SizeofXex2Header), PadTo(XEX2_MAGIC, SizeofXex2Header - 1),
               PadTo(XBE_MAGIC, SizeofXbeHeader), PadTo(XBE_MAGIC, SizeofXbeHeader - 1)}}

DetectPool == N3dsProbes \cup OtherProbes

-----------------------------------------------------------------------------
(* Detection: the five detectors called on one DetectInfo, in any order,   *)
(* while a SAP decoder is constructed and queried.                         *)

MaxDetectCalls == 3     \* detector calls in one run

Detectors == {"SAP", "Xbox360_XDBF", "Xbox360_XEX", "Xbox_XBE", "Nintendo3DS"}

RECURSIVE SumOver(_, _)
SumOver(f, S) ==
    IF S = {} THEN 0
    ELSE LET x == CHOOSE y \in S : TRUE IN f[x] + SumOver(f, S \ {x})

\* A call of detector det on detInfo that returned ret.
Detected(det, ret) ==
    /\ SumOver(detCalls, Detectors) < MaxDetectCalls
    /\ detCalls' = [detCalls EXCEPT ![det] = @ + 1]
    /\ detResults' = [detResults EXCEPT ![det] = @ \cup {ret}]
    /\ UNCHANGED <<bigEndian, restVars, sapVars, xdbfVars, detInfo>>

Detect_SAP == Detected("SAP", SAP_isRomSupported_static(detInfo))
Detect_XDBF == Detected("Xbox360_XDBF", Xbox360_XDBF_isRomSupported_static(detInfo))
Detect_XEX == Detected("Xbox360_XEX", Xbox360_XEX_isRomSupported_static(detInfo))
Detect_XBE == Detected("Xbox_XBE", Xbox_XBE_isRomSupported_static(detInfo))
Detect_N3DS == Detected("Nintendo3DS", Nintendo3DS_isRomSupported_static(detInfo, bigEndian))

InitDetect ==
    /\ RestIdle
    /\ bigEndian \in BOOLEAN
    /\ sapBytes = SapFile(<<TagLine(KwAUTHOR, Quoted(<<70, 111, 111>>))>>, TRUE)
    /\ sapState = "new"
    /\ sapFile = "open"
    /\ sapIsValid = FALSE
    /\ sapFields = <<>>
    /\ sapTags = TagData
    /\ sapParses = 0
    /\ XdbfIdle
    /\ detInfo \in DetectPool
    /\ detCalls = [det \in Detectors |-> 0]
    /\ detResults = [det \in Detectors |-> {}]

NextDetect ==
    \/ Detect_SAP
    \/ Detect_XDBF
    \/ Detect_XEX
    \/ Detect_XBE
    \/ Detect_N3DS
    \/ SAP_Construct
    \/ SAP_parseTags
    \/ SAP_loadFieldData

SpecDetect == InitDetect /\ [][NextDetect]_vars

-----------------------------------------------------------------------------
(* XEX: Xbox360_XEX_Private, initPeReader() and initXDBF().                *)

SizeofXex2SecurityInfo == 388           \* sizeof(XEX2_Security_Info)
SizeofXex2OptionalHeaderTbl == 8        \* sizeof(XEX2_Optional_Header_Tbl)
SizeofXex2FileFormatInfo == 8           \* sizeof(XEX2_File_Format_Info)
SizeofXex2CompressionBasicInfo == 8     \* sizeof(XEX2_Compression_Basic_Info)
SizeofXex2ResourceInfo == 16            \* sizeof(XEX2_Resource_Info)
XEX2_OPTHDR_RESOURCE_INFO == 767        \* 0x000002FF
XEX2_OPTHDR_FILE_FORMAT_INFO == 1023    \* 0x000003FF
XEX2_ENCRYPTION_TYPE_NONE == 0
XEX2_ENCRYPTION_TYPE_NORMAL == 1
XEX2_COMPRESSION_TYPE_NONE == 0
XEX2_COMPRESSION_TYPE_BASIC == 1
XEX2_COMPRESSION_TYPE_NORMAL == 2
MZ == 19802                             \* 'MZ', 0x4D5A
XEX2_MAX_OPT_HEADERS == 32              \* "Maximum of 32 optional headers."

\* The uint16_t / uint32_t a host of the given byte order reads from bytes
\* that lie in memory.
HostU16(b, be) == IF be THEN b[1] * 256 + b[2] ELSE b[2] * 256 + b[1]
HostU32(b, be) ==
    IF be THEN <<b[1] * 256 + b[2], b[3] * 256 + b[4]>>
    ELSE <<b[4] * 256 + b[3], b[2] * 256 + b[1]>>

\* a - b in uint32_t.
U32Sub(a, b) ==
    LET lo == a[2] - b[2]
        hi == a[1] - b[1] - (IF lo < 0 THEN 1 ELSE 0)
    IN  <<(hi + 65536) % 65536, (lo + 65536) % 65536>>

\* A null CBCReader*; an open reader knows the key it decrypts with (-1: none).
NullReader == [null |-> TRUE, key |-> -1]
\* A null Xbox360_XDBF*; an open XDBF has a title and an icon.
NullXdbf == [null |-> TRUE, title |-> "", icon |-> NullImage]
\* A null RomMetaData*.
NullMetaData == [null |-> TRUE, props |-> <<>>]

\* Xbox360_XEX_Private(q, file): the members after the initializer list and
\* the three memset() calls.  fileFormatInfo is kept as its bytes in memory.
Xbox360_XEX_Private ==
    [state |-> "new",
     file |-> "open",
     isValid |-> FALSE,
     magic |-> <<0, 0, 0, 0>>,
     pe_offset |-> U32(0),
     load_address |-> <<0, 0, 0, 0>>,
     optHdrTbl |-> <<>>,
     fileFormatInfo |-> <<0, 0, 0, 0, 0, 0, 0, 0>>,
     keyInUse |-> -1,
     basicZDataSegments |-> [n |-> 0, segs |-> <<>>],
     peReader |-> NullReader,
     peFile |-> "null",
     pe_xdbf |-> NullXdbf,
     fields |-> <<>>,
     metaData |-> NullMetaData]

\* The members of fileFormatInfo, as the host reads them.
FFI_size(d, be) == HostU32(SubSeq(d.fileFormatInfo, 1, 4), be)
FFI_encryption_type(d, be) == HostU16(SubSeq(d.fileFormatInfo, 5, 6), be)
FFI_compression_type(d, be) == HostU16(SubSeq(d.fileFormatInfo, 7, 8), be)

\* Xbox360_XEX::Xbox360_XEX(): the decoder after the constructor, for file f.
Xbox360_XEX_init(d, f) ==
    LET got    == FileRead(f.size, 0, SizeofXex2Header)
        hdr    == SubSeq(f.header, 1, got)
        failed == [d EXCEPT !.state = "ready", !.magic = <<0, 0, 0, 0>>, !.file = "null"]
        valid  == Xbox360_XEX_isRomSupported_static(DetectInfo(hdr, NullExt, 0)) >= 0
        secOff == be32_to_cpu(SubSeq(hdr, 17, 20))
        secGot == seekAndRead(f.size, secOff, SizeofXex2SecurityInfo)
        count  == Min(U32Int(be32_to_cpu(SubSeq(hdr, 21, 24))), XEX2_MAX_OPT_HEADERS)
        tblSz  == count * SizeofXex2OptionalHeaderTbl
        tblGot == seekAndRead(f.size, U32(SizeofXex2Header), tblSz)
        loaded == [d EXCEPT !.state = "ready",
                            !.isValid = TRUE,
                            !.magic = SubSeq(hdr, 1, 4),
                            !.pe_offset = be32_to_cpu(SubSeq(hdr, 9, 12))]
    IN  IF got # SizeofXex2Header THEN failed
        ELSE IF ~valid THEN [failed EXCEPT !.isValid = FALSE]
        ELSE IF secGot # SizeofXex2SecurityInfo
            THEN [loaded EXCEPT !.magic = <<0, 0, 0, 0>>, !.file = "null"]
        ELSE IF tblGot # tblSz
            THEN [loaded EXCEPT !.magic = <<0, 0, 0, 0>>, !.file = "null",
                                !.load_address = f.load_address]
        ELSE [loaded EXCEPT !.load_address = f.load_address,
                            !.optHdrTbl = SubSeq(f.optHdrTbl, 1, count)]

\* The loop of getOptHdrTblEntry() from entry i on: the index of the entry
\* with the id, 0 if there is none.
RECURSIVE getOptHdrTblEntryFrom(_, _, _)
getOptHdrTblEntryFrom(tbl, id, i) ==
    IF i > Len(tbl) THEN 0
    ELSE IF tbl[i].header_id = id THEN i
    ELSE getOptHdrTblEntryFrom(tbl, id, i + 1)

\* Xbox360_XEX_Private::getOptHdrTblEntry(): the table is not byteswapped,
\* so the id is compared as the bytes of its big-endian form.
getOptHdrTblEntry(d, header_id) ==
    IF d.optHdrTbl = <<>> THEN 0
    ELSE getOptHdrTblEntryFrom(d.optHdrTbl, BE32(U32(header_id)), 1)

\* What one initPeReader() run did: the bytes its two structure reads
\* delivered (-1: read not issued), the segment table it asked for, the
\* result of the retail key's verification and the keys it tried in order,
\* each with the outcome.
NoPeLog ==
    [ran |-> FALSE, ffiGot |-> -1, segLen |-> -1, cbiGot |-> -1, segsBuilt |-> 0,
     verify |-> "none", tried |-> <<>>]

\* A pass of the key loop that accepts a key without looking at the two bytes
\* it decrypted; C12 must tell it from TryKey().
TryKey_NoMagic(f, pe_length, i) ==
    IF ~f.setKeyOk[i + 1] THEN "setKey"
    ELSE IF ~f.decryptOk[i + 1] THEN "decrypt"
    ELSE IF ~f.readerOpen THEN "notOpen"
    ELSE IF FileRead(pe_length, 0, 2) # 2 THEN "shortRead"
    ELSE "accepted"

\* One pass of the key loop of initPeReader() for keyData[i].
TryKey(f, pe_length, i) ==
    IF ~f.setKeyOk[i + 1] THEN "setKey"
    ELSE IF ~f.decryptOk[i + 1] THEN "decrypt"
    ELSE IF ~f.readerOpen THEN "notOpen"
    ELSE IF FileRead(pe_length, 0, 2) # 2 THEN "shortRead"
    ELSE IF f.plain[i + 1] # cpu_to_be16(MZ) THEN "notMZ"
    ELSE "accepted"

\* The key loop from keyData[i] on: the passes it makes and the key it
\* accepts (-1: none).
RECURSIVE KeyLoop(_, _, _)
KeyLoop(f, pe_length, i) ==
    IF i >= 2 THEN [tried |-> <<>>, key |-> -1]
    ELSE IF TryKey(f, pe_length, i) = "accepted"
        THEN [tried |-> <<[key |-> i, result |-> "accepted"]>>, key |-> i]
    ELSE [tried |-> <<[key |-> i, result |-> TryKey(f, pe_length, i)]>>
                    \o KeyLoop(f, pe_length, i + 1).tried,
          key |-> KeyLoop(f, pe_length, i + 1).key]

\* The XEX2_Compression_Basic_Info the loop finds at cbi[i] after a read
\* that delivered `got` bytes: an entry the read did not fill holds what the
\* freshly allocated array held.
CbiEntry(f, got, i) ==
    IF i * SizeofXex2CompressionBasicInfo <= got /\ i <= Len(f.cbi) THEN f.cbi[i]
    ELSE f.heap

\* The segment loop of initPeReader() for entries i..seg_count.
RECURSIVE BasicZSegs(_, _, _, _, _, _)
BasicZSegs(f, got, seg_count, i, vaddr, physaddr) ==
    IF i > seg_count THEN <<>>
    ELSE LET data_size == be32_to_cpu(CbiEntry(f, got, i).data_size)
             zero_size == be32_to_cpu(CbiEntry(f, got, i).zero_size)
         IN  <<[vaddr |-> vaddr, physaddr |-> physaddr, length |-> data_size]>>
             \o BasicZSegs(f, got, seg_count, i + 1,
                           U32Add(U32Add(vaddr, data_size), zero_size),
                           U32Add(physaddr, data_size))

\* initPeReader(): the end, with the reader the branches produced.
initPeReader_done(d, reader, key, log) ==
    IF reader.null THEN [d |-> d, ret |-> NullReader, log |-> log]
    ELSE [d |-> [d EXCEPT !.peReader = reader,
                          !.keyInUse = IF key >= 0 THEN key ELSE @],
          ret |-> reader, log |-> log]

\* An encrypted branch that records the other key in keyInUse; C11 must tell
\* it from initPeReader_keys().
initPeReader_keys_Swapped(d, kl, log) ==
    initPeReader_done(d, IF kl.key >= 0 THEN [null |-> FALSE, key |-> kl.key] ELSE NullReader,
                      IF kl.key >= 0 THEN 1 - kl.key ELSE -1,
                      [log EXCEPT !.tried = kl.tried])

\* initPeReader(): the encrypted branch, kl being what the key loop did.
initPeReader_keys(d, kl, log) ==
    initPeReader_done(d, IF kl.key >= 0 THEN [null |-> FALSE, key |-> kl.key] ELSE NullReader, kl.key,
                      [log EXCEPT !.tried = kl.tried])

\* initPeReader(): the reader, once the compression type is dealt with.
initPeReader_reader(d, f, be, log) ==
    IF FFI_encryption_type(d, be) = HostU16(cpu_to_be16(XEX2_ENCRYPTION_TYPE_NONE), be)
        THEN initPeReader_done(d, IF f.readerOpen THEN [null |-> FALSE, key |-> -1] ELSE NullReader, -1, log)
    ELSE IF ~f.ENABLE_DECRYPTION
        THEN initPeReader_done(d, NullReader, -1, log)
    ELSE initPeReader_keys(
             d,
             KeyLoop(f, f.size - U32Int(d.pe_offset),
                     IF f.verifyResult = "VERIFY_OK" THEN 0 ELSE 1),
             [log EXCEPT !.verify = f.verifyResult])

\* initPeReader(): basic compression, after file->read(cbi.get(), seg_len)
\* returned `got`.
initPeReader_basic(d, f, be, log, seg_len, got) ==
    initPeReader_reader(
        [d EXCEPT !.basicZDataSegments =
            [n |-> seg_len,
             segs |-> BasicZSegs(f, got, seg_len \div SizeofXex2CompressionBasicInfo,
                                 1, U32(0), U32(0))]],
        f, be,
        [log EXCEPT !.segLen = seg_len, !.cbiGot = got,
                    !.segsBuilt = seg_len \div SizeofXex2CompressionBasicInfo])

\* initPeReader(): the switch on the compression type; pos is the file
\* position after the read of fileFormatInfo.
initPeReader_compression(d, f, be, log, pos) ==
    IF FFI_compression_type(d, be) = XEX2_COMPRESSION_TYPE_BASIC
        THEN IF U32Le(FFI_size(d, be), U32(SizeofXex2FileFormatInfo))
                 THEN [d |-> d, ret |-> NullReader, log |-> log]
             ELSE initPeReader_basic(
                      d, f, be, log,
                      U32Int(FFI_size(d, be)) - SizeofXex2FileFormatInfo,
                      FileRead(f.size, pos,
                               U32Int(FFI_size(d, be)) - SizeofXex2FileFormatInfo))
    ELSE initPeReader_reader(d, f, be, log)

\* The bytes of fileFormatInfo after a read of `got` bytes of `raw` into it.
FFI_read(old, raw, got) == SubSeq(raw, 1, got) \o SubSeq(old, got + 1, Len(old))

\* The byteswap of fileFormatInfo on a little-endian host.
FFI_byteswap(m, be) ==
    IF be THEN m
    ELSE <<m[4], m[3], m[2], m[1], m[6], m[5], m[8], m[7]>>

\* initPeReader(): from the read of fileFormatInfo at `addr` on.
initPeReader_info(d, f, be, addr, got) ==
    IF got # SizeofXex2FileFormatInfo
        THEN [d |-> [d EXCEPT !.fileFormatInfo = FFI_read(@, f.ffi, got)],
              ret |-> NullReader, log |-> [NoPeLog EXCEPT !.ran = TRUE, !.ffiGot = got]]
    ELSE initPeReader_compression(
             [d EXCEPT !.fileFormatInfo = FFI_byteswap(f.ffi, be)], f, be,
             [NoPeLog EXCEPT !.ran = TRUE, !.ffiGot = got],
             U32Int(addr) + SizeofXex2FileFormatInfo)

\* initPeReader(): from the optional header table entry i on.  The read of
\* fileFormatInfo goes through `file` unchecked: with a null `file` the call
\* does not return.
initPeReader_entry(d, f, be, i) ==
    IF i = 0 THEN [d |-> d, ret |-> NullReader, log |-> [NoPeLog EXCEPT !.ran = TRUE]]
    ELSE IF d.file = "null"
        THEN [d |-> [d EXCEPT !.state = "crashed"], ret |-> NullReader,
              log |-> [NoPeLog EXCEPT !.ran = TRUE]]
    ELSE initPeReader_info(d, f, be, be32_to_cpu(d.optHdrTbl[i].offset),
                           seekAndRead(f.size, be32_to_cpu(d.optHdrTbl[i].offset),
                                       SizeofXex2FileFormatInfo))

\* Xbox360_XEX_Private::initPeReader(): ret is the reader, "null" on error.
initPeReader(d, f, be) ==
    IF ~d.peReader.null THEN [d |-> d, ret |-> d.peReader, log |-> NoPeLog]
    ELSE initPeReader_entry(d, f, be, getOptHdrTblEntry(d, XEX2_OPTHDR_FILE_FORMAT_INFO))

\* The loop of initXDBF() over basicZDataSegments from entry i on: the
\* physical address of the resource.
RECURSIVE XdbfPhysAddr(_, _, _)
XdbfPhysAddr(segs, addr, i) ==
    IF i > Len(segs) THEN addr
    ELSE IF /\ U32Le(segs[i].vaddr, addr)
            /\ U32Lt(addr, U32Add(segs[i].vaddr, segs[i].length))
        THEN U32Sub(addr, U32Sub(segs[i].vaddr, segs[i].physaddr))
    ELSE XdbfPhysAddr(segs, addr, i + 1)

\* The elements of basicZDataSegments the loop of initXDBF() runs over: the
\* vector was resized to seg_len elements, the segment loop filled seg_count
\* of them, and the others hold what the allocation held.
ZDataSegments(d, f) ==
    d.basicZDataSegments.segs
         \o (IF d.basicZDataSegments.n > Len(d.basicZDataSegments.segs)
             THEN <<f.heapSeg>> ELSE <<>>)

\* initXDBF(): new PartitionFile(peReader, xdbf_physaddr, xdbf_length) and
\* new Xbox360_XDBF(peFile_tmp); the XDBF opens if the section holds one.
initXDBF_open(r, f, xdbf_physaddr) ==
    IF f.xdbfOk /\ xdbf_physaddr = f.xdbfPhys
        THEN [d |-> [r.d EXCEPT !.peFile = "open",
                                !.pe_xdbf = [null |-> FALSE, title |-> f.title, icon |-> f.icon]],
              ret |-> [null |-> FALSE, title |-> f.title, icon |-> f.icon], log |-> r.log]
    ELSE [d |-> r.d, ret |-> NullXdbf, log |-> r.log]

\* initXDBF(): from the optional header table entry i of the resource
\* information on.
initXDBF_entry(r, f, be, i) ==
    IF i = 0 THEN [d |-> r.d, ret |-> NullXdbf, log |-> r.log]
    ELSE IF seekAndRead(f.size, be32_to_cpu(r.d.optHdrTbl[i].offset),
                        SizeofXex2ResourceInfo) # SizeofXex2ResourceInfo
        THEN [d |-> r.d, ret |-> NullXdbf, log |-> r.log]
    ELSE initXDBF_open(
             r, f,
             IF FFI_compression_type(r.d, be) = XEX2_COMPRESSION_TYPE_BASIC
             THEN XdbfPhysAddr(ZDataSegments(r.d, f),
                               U32Sub(be32_to_cpu(f.resInfo.resource_vaddr),
                                      be32_to_cpu(r.d.load_address)), 1)
             ELSE U32Sub(be32_to_cpu(f.resInfo.resource_vaddr),
                         be32_to_cpu(r.d.load_address)))

\* initXDBF(): r is what initPeReader() returned.
initXDBF_pe(r, f, be) ==
    IF r.ret.null THEN [d |-> r.d, ret |-> NullXdbf, log |-> r.log]
    ELSE initXDBF_entry(r, f, be, getOptHdrTblEntry(r.d, XEX2_OPTHDR_RESOURCE_INFO))

\* Xbox360_XEX_Private::initXDBF(): ret is the XDBF object, "null" on error.
initXDBF(d, f, be) ==
    IF ~d.pe_xdbf.null THEN [d |-> d, ret |-> d.pe_xdbf, log |-> NoPeLog]
    ELSE initXDBF_pe(initPeReader(d, f, be), f, be)

\* loadFieldData(): the "Encryption Key" field.
s_encryption_key(d, be) ==
    IF FFI_encryption_type(d, be) = HostU16(cpu_to_be16(XEX2_ENCRYPTION_TYPE_NONE), be)
        THEN "None"
    ELSE IF d.keyInUse = 0 THEN "Retail"
    ELSE IF d.keyInUse = 1 THEN "Debug"
    ELSE "Unknown"

\* loadFieldData(): the fields, r being what initXDBF() returned.  The files
\* modelled carry neither an original PE name nor an execution ID.
Xbox360_XEX_loadFieldData_fields(r, be) ==
    [d |-> [r.d EXCEPT !.fields =
               (IF ~r.ret.null /\ r.ret.title # ""
                THEN <<[name |-> "Title", value |-> r.ret.title]>> ELSE <<>>)
               \o <<[name |-> "Module Flags", value |-> "flags"],
                    [name |-> "Media Types", value |-> "media"],
                    [name |-> "Region Code", value |-> "region"],
                    [name |-> "Encryption Key", value |-> s_encryption_key(r.d, be)],
                    [name |-> "Compression", value |-> FFI_compression_type(r.d, be)]>>],
     ret |-> 5 + (IF ~r.ret.null /\ r.ret.title # "" THEN 1 ELSE 0),
     xdbf |-> r.ret,
     log |-> r.log]

\* Xbox360_XEX::loadFieldData()
Xbox360_XEX_loadFieldData(d, f, be) ==
    IF d.fields # <<>> THEN [d |-> d, ret |-> 0, xdbf |-> NullXdbf, log |-> NoPeLog]
    ELSE IF d.file = "null" THEN [d |-> d, ret |-> -9, xdbf |-> NullXdbf, log |-> NoPeLog]
    ELSE IF ~d.isValid THEN [d |-> d, ret |-> -5, xdbf |-> NullXdbf, log |-> NoPeLog]
    ELSE IF d.magic # XEX2_MAGIC THEN [d |-> d, ret |-> 0, xdbf |-> NullXdbf, log |-> NoPeLog]
    ELSE Xbox360_XEX_loadFieldData_fields(initXDBF(d, f, be), be)

\* loadMetaData(): the metadata, r being what initXDBF() returned.
Xbox360_XEX_loadMetaData_title(r) ==
    IF r.ret.null THEN [d |-> r.d, ret |-> 0, xdbf |-> r.ret, log |-> r.log]
    ELSE [d |-> [r.d EXCEPT !.metaData =
                    [null |-> FALSE,
                     props |-> IF r.ret.title # "" THEN <<r.ret.title>> ELSE <<>>]],
          ret |-> IF r.ret.title # "" THEN 1 ELSE 0,
          xdbf |-> r.ret, log |-> r.log]

\* Xbox360_XEX::loadMetaData()
Xbox360_XEX_loadMetaData(d, f, be) ==
    IF ~d.metaData.null THEN [d |-> d, ret |-> 0, xdbf |-> NullXdbf, log |-> NoPeLog]
    ELSE IF d.file = "null" THEN [d |-> d, ret |-> -9, xdbf |-> NullXdbf, log |-> NoPeLog]
    ELSE IF ~d.isValid THEN [d |-> d, ret |-> -5, xdbf |-> NullXdbf, log |-> NoPeLog]
    ELSE Xbox360_XEX_loadMetaData_title(initXDBF(d, f, be))

\* Xbox360_XEX::loadInternalImage(): ret is the return value, image what
\* it stored in *pImage (written: whether it stored anything).
Xbox360_XEX_loadInternalImage(d) ==
    IF ~d.pe_xdbf.null
        THEN [ret |-> IF d.pe_xdbf.icon # NullImage THEN 0 ELSE -5,
              written |-> TRUE, image |-> d.pe_xdbf.icon]
    ELSE [ret |-> -2, written |-> FALSE, image |-> NullImage]       \* -ENOENT

\* Xbox360_XEX::supportedImageTypes(), supportedImageSizes() and imgpf():
\* each asks initXDBF() for the XDBF and forwards to it; ret is 1 when the
\* XDBF answered, 0 for "nothing available".
Xbox360_XEX_supportedImageTypes(r) ==
    [d |-> r.d, ret |-> IF r.ret.null THEN 0 ELSE 1, xdbf |-> r.ret, log |-> r.log]

\* A release sequence that deletes the reader before the objects built on
\* it; C21 must tell it from Released().
Released_ReaderFirst(d) ==
    (IF ~d.peReader.null THEN <<"peReader">> ELSE <<>>)
    \o (IF ~d.pe_xdbf.null THEN <<"pe_xdbf">> ELSE <<>>)
    \o (IF d.peFile # "null" THEN <<"peFile">> ELSE <<>>)

\* The objects a release sequence let go of, in order; a null pointer is
\* skipped (unref() is guarded, delete of a null pointer does nothing).
Released(d) ==
    (IF ~d.pe_xdbf.null THEN <<"pe_xdbf">> ELSE <<>>)
    \o (IF d.peFile # "null" THEN <<"peFile">> ELSE <<>>)
    \o (IF ~d.peReader.null THEN <<"peReader">> ELSE <<>>)

\* RomData::close(): the base class lets go of the file and clears `file`.
RomData_close(d) == [d EXCEPT !.file = "null"]

\* Xbox360_XEX::close()
Xbox360_XEX_close(d) ==
    [d |-> RomData_close([d EXCEPT !.pe_xdbf = NullXdbf,
                                   !.peFile = "null",
                                   !.peReader = NullReader]),
     released |-> Released(d)]

\* Xbox360_XEX_Private::~Xbox360_XEX_Private(): the members keep their
\* values, the object is gone.
Xbox360_XEX_destroy(d) ==
    [d |-> [d EXCEPT !.state = "destroyed"], released |-> Released(d)]

-----------------------------------------------------------------------------
(* XEX files, the key store and the cipher.                                *)

\* The two segments of a file with basic compression.
XexCbi ==
    <<[data_size |-> BE32(U32(256)), zero_size |-> BE32(U32(256))],
      [data_size |-> BE32(U32(512)), zero_size |-> BE32(U32(0))]>>

XexDefault ==
    [ctor |-> "ok", ffi |-> "ok", enc |-> XEX2_ENCRYPTION_TYPE_NORMAL,
     comp |-> XEX2_COMPRESSION_TYPE_NONE, segs |-> "two", cbi |-> "ok",
     heap |-> "zero", res |-> "ok", xdbfOk |-> TRUE, verify |-> "VERIFY_OK",
     plain0 |-> TRUE, plain1 |-> FALSE, fault |-> "none", decryption |-> TRUE]

XexEncryptionTypes == {XEX2_ENCRYPTION_TYPE_NONE, XEX2_ENCRYPTION_TYPE_NORMAL}

\* Encrypted files with every state of the key store, the cipher and the
\* plaintext.
XexKeyConfigs ==
    {[XexDefault EXCEPT !.verify = v, !.plain0 = p0, !.plain1 = p1, !.fault = ft] :
        v \in {"VERIFY_OK", "VERIFY_KEY_NOT_FOUND", "VERIFY_WRONG_KEY"},
        p0 \in BOOLEAN, p1 \in BOOLEAN,
        ft \in {"none", "setKey0", "setKey1", "decrypt0", "decrypt1", "notOpen", "peShort"}}

\* Files with every state of the segment table of basic compression.
XexSegConfigs ==
    {[XexDefault EXCEPT !.enc = e, !.comp = XEX2_COMPRESSION_TYPE_BASIC,
                        !.segs = sg, !.cbi = cb, !.heap = hp, !.xdbfOk = x] :
        e \in XexEncryptionTypes, sg \in {"two", "nosegs"},
        cb \in {"ok", "half", "none"}, hp \in {"zero", "big"}, x \in BOOLEAN}

\* Files with one other deviation, encrypted or not.
XexOtherConfigs ==
    {[XexDefault EXCEPT !.enc = e, !.ctor = ct] :
        e \in XexEncryptionTypes, ct \in {"ok", "shortheader", "badmagic", "nosecinfo"}}
    \cup {[XexDefault EXCEPT !.enc = e, !.ffi = ff] :
        e \in XexEncryptionTypes, ff \in {"none", "short"}}
    \cup {[XexDefault EXCEPT !.enc = e, !.res = rs] :
        e \in XexEncryptionTypes, rs \in {"none", "short"}}
    \cup {[XexDefault EXCEPT !.enc = e, !.comp = XEX2_COMPRESSION_TYPE_NORMAL, !.xdbfOk = x] :
        e \in XexEncryptionTypes, x \in BOOLEAN}
    \cup {[XexDefault EXCEPT !.enc = e, !.decryption = FALSE] : e \in XexEncryptionTypes}

XexConfigs == XexKeyConfigs \cup XexSegConfigs \cup XexOtherConfigs

\* The file, the key store and the cipher of configuration c.
XexFile(c) ==
    LET XexFileSize      == 4096
        XexPeOffset      == 1024
        XexSecInfoOffset == 64
        XexResVaddr      == 600     \* resource_vaddr - load_address
        size   == CASE c.ctor = "shortheader" -> 16
                    [] c.ctor = "nosecinfo" -> 128
                    [] OTHER -> XexFileSize
        ffiOff == CASE c.ffi = "short" -> size - 4
                    [] c.cbi = "half" -> size - 16
                    [] c.cbi = "none" -> size - 8
                    [] OTHER -> 512
        resOff == IF c.res = "short" THEN size - 2 ELSE 256
        tbl    == (IF c.ffi = "none" THEN <<>>
                   ELSE <<[header_id |-> BE32(U32(XEX2_OPTHDR_FILE_FORMAT_INFO)),
                           offset |-> BE32(U32(ffiOff))]>>)
                  \o (IF c.res = "none" THEN <<>>
                      ELSE <<[header_id |-> BE32(U32(XEX2_OPTHDR_RESOURCE_INFO)),
                              offset |-> BE32(U32(resOff))]>>)
        basic  == c.comp = XEX2_COMPRESSION_TYPE_BASIC
        segLen == IF basic /\ c.segs = "two"
                  THEN 2 * SizeofXex2CompressionBasicInfo ELSE 0
    IN  [size |-> size,
         header |-> (IF c.ctor = "badmagic" THEN <<88, 69, 88, 49>> ELSE XEX2_MAGIC)
                    \o BE32(U32(1))
                    \o BE32(U32(IF c.fault = "peShort" THEN size - 1 ELSE XexPeOffset))
                    \o BE32(U32(0))
                    \o BE32(U32(XexSecInfoOffset))
                    \o BE32(U32(Len(tbl))),
         load_address |-> BE32(<<33280, 0>>),
         optHdrTbl |-> tbl,
         ffi |-> BE32(U32(SizeofXex2FileFormatInfo + segLen))
                 \o BE16(c.enc) \o BE16(c.comp),
         cbi |-> XexCbi,
         heap |-> IF c.heap = "zero"
                  THEN [data_size |-> <<0, 0, 0, 0>>, zero_size |-> <<0, 0, 0, 0>>]
                  ELSE [data_size |-> BE32(U32(4096)), zero_size |-> <<0, 0, 0, 0>>],
         heapSeg |-> IF c.heap = "zero"
                     THEN [vaddr |-> U32(0), physaddr |-> U32(0), length |-> U32(0)]
                     ELSE [vaddr |-> U32(0), physaddr |-> U32(16), length |-> U32(4096)],
         resInfo |-> [resource_vaddr |-> BE32(U32Add(<<33280, 0>>, U32(XexResVaddr))),
                      resource_size |-> BE32(U32(1024))],
         xdbfOk |-> c.xdbfOk,
         xdbfPhys |-> IF basic THEN U32(XexResVaddr - 256) ELSE U32(XexResVaddr),
         title |-> "Game",
         icon |-> 1,
         ENABLE_DECRYPTION |-> c.decryption,
         verifyResult |-> c.verify,
         setKeyOk |-> <<c.fault # "setKey0", c.fault # "setKey1">>,
         decryptOk |-> <<c.fault # "decrypt0", c.fault # "decrypt1">>,
         readerOpen |-> c.fault # "notOpen",
         plain |-> <<IF c.plain0 THEN <<77, 90>> ELSE <<19, 55>>,
                     IF c.plain1 THEN <<77, 90>> ELSE <<200, 3>>>>]

-----------------------------------------------------------------------------
(* The XEX decoder: one instance on one file.                              *)

NoXexCall ==
    [op |-> "none", ret |-> 0, xdbf |-> NullXdbf, log |-> NoPeLog,
     written |-> FALSE, image |-> NullImage, released |-> <<>>, closed |-> FALSE]

XexFrame == UNCHANGED <<sapVars, xdbfVars, detVars, bigEndian, xbeVars, n3dsVars, mtVars, xexFile>>

XEX_Construct ==
    /\ xexObj.state = "new"
    /\ xexObj' = Xbox360_XEX_init(xexObj, xexFile)
    /\ xexCall' = [NoXexCall EXCEPT !.op = "init"]
    /\ XexFrame

XexReturn(op, r) ==
    /\ xexObj' = r.d
    /\ xexCall' = [NoXexCall EXCEPT !.op = op, !.ret = r.ret, !.xdbf = r.xdbf, !.log = r.log,
                                    !.closed = xexCall.closed]
    /\ XexFrame

XEX_loadFieldData ==
    /\ xexObj.state = "ready"
    /\ XexReturn("loadFieldData", Xbox360_XEX_loadFieldData(xexObj, xexFile, bigEndian))

XEX_loadMetaData ==
    /\ xexObj.state = "ready"
    /\ XexReturn("loadMetaData", Xbox360_XEX_loadMetaData(xexObj, xexFile, bigEndian))

XEX_loadInternalImage ==
    /\ xexObj.state = "ready"
    /\ xexCall' = [NoXexCall EXCEPT !.op = "loadInternalImage",
                                    !.ret = Xbox360_XEX_loadInternalImage(xexObj).ret,
                                    !.written = Xbox360_XEX_loadInternalImage(xexObj).written,
                                    !.image = Xbox360_XEX_loadInternalImage(xexObj).image,
                                    !.closed = xexCall.closed]
    /\ UNCHANGED xexObj
    /\ XexFrame

\* supportedImageTypes(), supportedImageSizes(imageType) and imgpf(imageType)
XEX_supportedImageTypes ==
    /\ xexObj.state = "ready"
    /\ \E op \in {"supportedImageTypes", "supportedImageSizes", "imgpf"} :
           XexReturn(op, Xbox360_XEX_supportedImageTypes(initXDBF(xexObj, xexFile, bigEndian)))

XEX_close ==
    /\ xexObj.state = "ready"
    /\ xexObj' = Xbox360_XEX_close(xexObj).d
    /\ xexCall' = [NoXexCall EXCEPT !.op = "close",
                                    !.released = Xbox360_XEX_close(xexObj).released,
                                    !.closed = TRUE]
    /\ XexFrame

\* delete: the destructor; nothing can be called afterwards.
XEX_Destroy ==
    /\ xexObj.state = "ready"
    /\ xexObj' = Xbox360_XEX_destroy(xexObj).d
    /\ xexCall' = [NoXexCall EXCEPT !.op = "destroy",
                                    !.released = Xbox360_XEX_destroy(xexObj).released,
                                    !.closed = xexCall.closed]
    /\ XexFrame

InitXEX ==
    /\ bigEndian \in BOOLEAN
    /\ SapIdle
    /\ XdbfIdle
    /\ DetIdle
    /\ XbeIdle
    /\ N3dsIdle
    /\ MtIdle
    /\ \E c \in XexConfigs : xexFile = XexFile(c)
    /\ xexObj = Xbox360_XEX_Private
    /\ xexCall = NoXexCall

NextXEX ==
    \/ XEX_Construct
    \/ XEX_loadFieldData
    \/ XEX_loadMetaData
    \/ XEX_loadInternalImage
    \/ XEX_supportedImageTypes
    \/ XEX_close
    \/ XEX_Destroy

SpecXEX == InitXEX /\ [][NextXEX]_vars

-----------------------------------------------------------------------------
(* Xbox_XBE: the title image of an Xbox executable.                        *)

SizeofXbeSectionHeader == 56    \* sizeof(XBE_Section_Header)
XBE_READ_SIZE == 65536          \* 64*1024
XBOX_XPR0_MAGIC == <<88, 80, 82, 48>>   \* 'XPR0'
PNG_MAGIC == <<137, 80, 78, 71>>        \* '\x89PNG'
IMG_INT_ICON == 0
IMG_INT_BANNER == 1
IMG_INT_MIN == 0
IMG_INT_MAX == 3
IMGBF_INT_ICON == 1

\* xtImage after memset(&xtImage, 0, sizeof(xtImage)): the union holds a
\* null pointer.
NoXtImage == [isInit |-> FALSE, isPng |-> FALSE, ptr |-> "null"]

\* Xbox_XBE_Private::Xbox_XBE_Private()
Xbox_XBE_Private ==
    [state |-> "new", file |-> "null", isValid |-> FALSE,
     xbeHeader |-> [magic |-> <<0, 0, 0, 0>>, base_address |-> <<0, 0, 0, 0>>,
                    section_headers_address |-> <<0, 0, 0, 0>>,
                    section_count |-> <<0, 0, 0, 0>>,
                    pe_base_address |-> <<0, 0, 0, 0>>],
     discReader |-> FALSE, pe_exe |-> FALSE, fields |-> <<>>, xtImage |-> NoXtImage]

\* Xbox_XBE::Xbox_XBE(): the header is kept as read, not byteswapped.
Xbox_XBE_init(d, f) ==
    IF FileRead(f.size, 0, SizeofXbeHeader) # SizeofXbeHeader
        THEN [d EXCEPT !.state = "ready"]
    ELSE IF f.header.magic # XBE_MAGIC
        THEN [d EXCEPT !.state = "ready", !.xbeHeader = [f.header EXCEPT !.magic = <<0, 0, 0, 0>>]]
    ELSE [d EXCEPT !.state = "ready", !.file = "open", !.isValid = TRUE,
                   !.xbeHeader = f.header]

\* findXbeSectionHeader(): the loop over the section headers from header i
\* on, count being the reduced section count.
RECURSIVE findXbeSectionHeaderFrom(_, _, _, _, _)
findXbeSectionHeaderFrom(f, base_address, name, i, count) ==
    IF i > count THEN [ret |-> -2, paddr |-> <<0, 0>>, psize |-> <<0, 0>>]
    ELSE IF i > Len(f.sections)
        \* headers the section count declares beyond those of the file: the
        \* zero bytes that follow them
        THEN findXbeSectionHeaderFrom(f, base_address, name, i + 1, count)
    ELSE IF U32Le(le32_to_cpu(f.sections[i].section_name_address), base_address)
        THEN findXbeSectionHeaderFrom(f, base_address, name, i + 1, count)
    ELSE IF seekAndRead(f.size,
                        U32Sub(le32_to_cpu(f.sections[i].section_name_address),
                               base_address), 16) # 16
        THEN [ret |-> -5, paddr |-> <<0, 0>>, psize |-> <<0, 0>>]
    ELSE IF f.sections[i].name = name
        THEN [ret |-> 0, paddr |-> le32_to_cpu(f.sections[i].paddr),
              psize |-> le32_to_cpu(f.sections[i].psize)]
    ELSE findXbeSectionHeaderFrom(f, base_address, name, i + 1, count)

\* findXbeSectionHeader(): from the read of the first 64 KB on.
findXbeSectionHeader_read(f, base_address, shdr_address_phys, section_count, name) ==
    IF seekAndRead(f.size, U32(0), XBE_READ_SIZE) # XBE_READ_SIZE
        THEN [ret |-> -5, paddr |-> <<0, 0>>, psize |-> <<0, 0>>]
    ELSE findXbeSectionHeaderFrom(f, base_address, name, 1,
             IF shdr_address_phys + section_count * SizeofXbeSectionHeader > XBE_READ_SIZE
             THEN (XBE_READ_SIZE - shdr_address_phys) \div SizeofXbeSectionHeader
             ELSE section_count)

\* Xbox_XBE_Private::findXbeSectionHeader(): ret is the return value, paddr
\* and psize what *pOutHeader holds on success.
findXbeSectionHeader(d, f, name) ==
    IF d.file = "null" THEN [ret |-> -9, paddr |-> <<0, 0>>, psize |-> <<0, 0>>]
    ELSE IF U32Le(le32_to_cpu(d.xbeHeader.section_headers_address),
                  le32_to_cpu(d.xbeHeader.base_address))
        THEN [ret |-> -5, paddr |-> <<0, 0>>, psize |-> <<0, 0>>]
    ELSE IF ~U32Lt(U32Sub(le32_to_cpu(d.xbeHeader.section_headers_address),
                          le32_to_cpu(d.xbeHeader.base_address)),
                   U32(XBE_READ_SIZE))
        THEN [ret |-> -5, paddr |-> <<0, 0>>, psize |-> <<0, 0>>]
    ELSE findXbeSectionHeader_read(
             f, le32_to_cpu(d.xbeHeader.base_address),
             U32Int(U32Sub(le32_to_cpu(d.xbeHeader.section_headers_address),
                           le32_to_cpu(d.xbeHeader.base_address))),
             U32Int(le32_to_cpu(d.xbeHeader.section_count)), name)

\* What a call of initXPR0_xtImage() left: the object and the return value.
\* ret is 1 where the call did not return.
XtRet(d, ret) == [d |-> d, ret |-> ret]

\* initXPR0_xtImage(): the branch on the magic number, ptFile being open.
\* RpPng::load() can return a null pointer, and img->isValid() is called on
\* what it returned.
initXPR0_xtImage_magic(d, f, magic) ==
    IF magic = XBOX_XPR0_MAGIC
        THEN IF f.xtimage.xprOpen
             THEN XtRet([d EXCEPT !.xtImage = [isInit |-> TRUE, isPng |-> FALSE,
                                               ptr |-> "xpr0"]], 0)
             ELSE XtRet(d, 0)
    ELSE IF magic = PNG_MAGIC
        THEN IF f.xtimage.png = "null" THEN XtRet([d EXCEPT !.state = "crashed"], 1)
             ELSE IF f.xtimage.png = "valid"
             THEN XtRet([d EXCEPT !.xtImage = [isInit |-> TRUE, isPng |-> TRUE,
                                               ptr |-> "png"]], 0)
             ELSE XtRet(d, 0)
    ELSE XtRet(d, 0)

\* initXPR0_xtImage(): from the PartitionFile on, hdr being what
\* findXbeSectionHeader() stored.
initXPR0_xtImage_open(d, f, hdr) ==
    IF ~f.ptOpen THEN XtRet(d, 0)
    ELSE IF Min(U32Int(hdr.psize), FileRead(f.size, U32Int(hdr.paddr), 4)) # 4
        THEN XtRet(d, -5)
    ELSE initXPR0_xtImage_magic(d, f, f.xtimage.magic)

\* initXPR0_xtImage(): from the DiscReader on.
initXPR0_xtImage_disc(d, f, hdr) ==
    IF hdr.ret # 0 THEN XtRet(d, -2)
    ELSE IF d.discReader THEN initXPR0_xtImage_open(d, f, hdr)
    ELSE IF ~f.discOpen THEN XtRet(d, -5)
    ELSE initXPR0_xtImage_open([d EXCEPT !.discReader = TRUE], f, hdr)

\* Xbox_XBE_Private::initXPR0_xtImage()
initXPR0_xtImage(d, f) ==
    IF d.xtImage.isInit THEN XtRet(d, 0)
    ELSE initXPR0_xtImage_disc(d, f, findXbeSectionHeader(d, f, "$$XTIMAGE"))

\* What a call on the decoder left: the object, the return value, what
\* *pImage holds (written: whether it was stored to), and what the
\* initXPR0_xtImage() of the call returned (called: whether it ran).
XbeRet(d, ret, written, image, called, init) ==
    [d |-> d, ret |-> ret, written |-> written, image |-> image,
     called |-> called, init |-> init]

\* loadInternalImage(): from the branch on xtImage.isPng on; d is the object
\* at that point.  The XPR0 branch calls through xtImage.xpr0, the null
\* pointer of the constructor's memset() where nothing was initialized;
\* XboxXPR::loadInternalImage() stores the image or a null pointer.
loadInternalImage_image(d, f, called, init) ==
    IF d.state = "crashed" THEN XbeRet(d, 1, FALSE, NullImage, called, init)
    ELSE IF ~d.xtImage.isPng
        THEN IF d.xtImage.ptr = "null"
             THEN XbeRet([d EXCEPT !.state = "crashed"], 1, FALSE, NullImage, called, init)
             ELSE IF f.xtimage.xprImage
             THEN XbeRet(d, 0, TRUE, 1, called, init)
             ELSE XbeRet(d, -5, TRUE, NullImage, called, init)
    ELSE XbeRet(d, 0, TRUE, 2, called, init)

\* loadInternalImage(): the call of initXPR0_xtImage(), r being what it left.
loadInternalImage_init(r, f) == loadInternalImage_image(r.d, f, TRUE, r.ret)

\* Xbox_XBE::loadInternalImage()
Xbox_XBE_loadInternalImage(d, f, imageType) ==
    IF imageType # IMG_INT_ICON THEN XbeRet(d, -2, TRUE, NullImage, FALSE, 1)
    ELSE IF d.xtImage.isInit THEN loadInternalImage_image(d, f, FALSE, 1)
    ELSE IF d.file = "null" THEN XbeRet(d, -9, TRUE, NullImage, FALSE, 1)
    ELSE IF ~d.isValid THEN XbeRet(d, -5, TRUE, NullImage, FALSE, 1)
    ELSE loadInternalImage_init(initXPR0_xtImage(d, f), f)

\* supportedImageTypes(): after the call of initXPR0_xtImage().
supportedImageTypes_init(r) ==
    XbeRet(r.d, IF r.d.xtImage.isInit THEN IMGBF_INT_ICON ELSE 0,
           FALSE, NullImage, TRUE, r.ret)

\* Xbox_XBE::supportedImageTypes()
Xbox_XBE_supportedImageTypes(d, f) ==
    IF d.xtImage.isInit THEN XbeRet(d, IMGBF_INT_ICON, FALSE, NullImage, FALSE, 1)
    ELSE supportedImageTypes_init(initXPR0_xtImage(d, f))

\* What one initEXE() run did: whether it got past the cached pe_exe
\* (ran), whether it created a DiscReader of its own (created), whether it
\* constructed the PartitionFile (built) and whether `discReader` was
\* non-null at that point (disc).
NoExeLog == [ran |-> FALSE, created |-> FALSE, built |-> FALSE, disc |-> FALSE]

\* What a call of initEXE() left: ret is whether it returned an EXE.
ExeRet(d, ret, log) == [d |-> d, ret |-> ret, log |-> log]

\* initEXE(): new PartitionFile(discReader, ...) and new EXE(ptFile).  The
\* PartitionFile is constructed on the member `discReader`; on a null reader
\* it either reports not open or the construction does not return.
initEXE_open(d, f, log) ==
    IF ~d.discReader
        THEN IF f.ptNull = "crash" THEN ExeRet([d EXCEPT !.state = "crashed"], FALSE, log)
             ELSE ExeRet(d, FALSE, log)
    ELSE IF ~f.ptOpen THEN ExeRet(d, FALSE, log)
    ELSE IF f.exeOpen THEN ExeRet([d EXCEPT !.pe_exe = TRUE], TRUE, log)
    ELSE ExeRet(d, FALSE, log)

\* initEXE(): from the DiscReader on.  The reader the function creates stays
\* in discReader_tmp.
initEXE_disc(d, f, log) ==
    IF d.discReader
        THEN initEXE_open(d, f, [log EXCEPT !.built = TRUE, !.disc = TRUE])
    ELSE IF ~f.discOpen THEN ExeRet(d, FALSE, [log EXCEPT !.created = TRUE])
    ELSE initEXE_open(d, f, [log EXCEPT !.created = TRUE, !.built = TRUE,
                                        !.disc = d.discReader])

\* Xbox_XBE_Private::initEXE()
initEXE(d, f) ==
    IF d.pe_exe THEN ExeRet(d, TRUE, NoExeLog)
    ELSE IF d.file = "null" THEN ExeRet(d, FALSE, [NoExeLog EXCEPT !.ran = TRUE])
    ELSE IF \/ U32Int(U32Sub(le32_to_cpu(d.xbeHeader.pe_base_address),
                             le32_to_cpu(d.xbeHeader.base_address))) < SizeofXbeHeader
            \/ U32Int(U32Sub(le32_to_cpu(d.xbeHeader.pe_base_address),
                             le32_to_cpu(d.xbeHeader.base_address))) >= f.size
        THEN ExeRet(d, FALSE, [NoExeLog EXCEPT !.ran = TRUE])
    ELSE initEXE_disc(d, f, [NoExeLog EXCEPT !.ran = TRUE])

\* loadFieldData(): the fields, r being what initEXE() left.  The files
\* modelled carry no debug file name; the fields of the certificate are one
\* entry, those of the EXE another.
Xbox_XBE_loadFieldData_fields(r) ==
    IF r.d.state = "crashed" THEN [d |-> r.d, ret |-> 1, log |-> r.log]
    ELSE [d |-> [r.d EXCEPT !.fields = <<"XBE">> \o (IF r.ret THEN <<"EXE">> ELSE <<>>)],
          ret |-> 1 + (IF r.ret THEN 1 ELSE 0), log |-> r.log]

\* Xbox_XBE::loadFieldData()
Xbox_XBE_loadFieldData(d, f) ==
    IF d.fields # <<>> THEN [d |-> d, ret |-> 0, log |-> NoExeLog]
    ELSE IF d.file = "null" THEN [d |-> d, ret |-> -9, log |-> NoExeLog]
    ELSE IF ~d.isValid THEN [d |-> d, ret |-> -5, log |-> NoExeLog]
    ELSE IF d.xbeHeader.magic # XBE_MAGIC THEN [d |-> d, ret |-> 0, log |-> NoExeLog]
    ELSE Xbox_XBE_loadFieldData_fields(initEXE(d, f))

(* XBE files: a header, two section headers at most, and what the classes *)
(* the title image goes through make of it.                                *)

XbeDefault ==
    [header |-> "ok", section |-> "found", discOpen |-> TRUE, ptOpen |-> TRUE,
     image |-> "xpr0", xprOpen |-> TRUE, png |-> "valid", xprImage |-> TRUE,
     exe |-> "ok", ptNull |-> "closed"]

XbeConfigs ==
    {[XbeDefault EXCEPT !.header = h] : h \in {"short", "badmagic"}}
    \cup {[XbeDefault EXCEPT !.section = s] :
             s \in {"none", "low", "far", "small", "badname", "cut", "many"}}
    \cup {[XbeDefault EXCEPT !.discOpen = dk, !.ptOpen = pt, !.image = im,
                             !.xprOpen = xo, !.png = pg, !.xprImage = xi] :
             dk \in BOOLEAN, pt \in BOOLEAN,
             im \in {"xpr0", "png", "other", "short"},
             xo \in BOOLEAN, pg \in {"valid", "invalid", "null"}, xi \in BOOLEAN}
    \cup {[XbeDefault EXCEPT !.exe = e, !.ptNull = pn, !.discOpen = dk, !.ptOpen = pt,
                             !.section = s] :
             e \in {"ok", "low", "far", "notexe"}, pn \in {"closed", "crash"},
             dk \in BOOLEAN, pt \in BOOLEAN, s \in {"found", "none"}}

XbeFile(c) ==
    LET XbeBase == 65536
        XbeShdr == 400
        XbeImageAddr == 66000
        XbeExe == 4096
        sec(name, nameAddr, paddr, psize) ==
            [name |-> name, section_name_address |-> LE32(U32(nameAddr)),
             paddr |-> LE32(U32(paddr)), psize |-> LE32(U32(psize))]
    IN  [size   |-> IF c.header = "short" THEN 100
                    ELSE IF c.section = "small" THEN 40000
                    ELSE IF c.section = "cut" THEN XBE_READ_SIZE + 10
                    ELSE 70000,
         header |-> [magic |-> IF c.header = "badmagic" THEN <<88, 69, 88, 50>>
                               ELSE XBE_MAGIC,
                     base_address |-> LE32(U32(XbeBase)),
                     section_headers_address |->
                         LE32(U32(XbeBase + (CASE c.section = "low" -> 0
                                               [] c.section = "far" -> XBE_READ_SIZE
                                               [] c.section = "many" -> XBE_READ_SIZE - 60
                                               [] OTHER -> XbeShdr))),
                     section_count |-> LE32(U32(IF c.section = "many" THEN 3 ELSE 2)),
                     pe_base_address |->
                         LE32(U32(XbeBase + (CASE c.exe = "low" -> 100
                                               [] c.exe = "far" -> 70000
                                               [] OTHER -> XbeExe)))],
         sections |-> <<sec(".text", XbeBase + 300, 4096, 1000)>>
                      \o (CASE c.section = "none" -> <<sec(".data", XbeBase + 320, 5200, 10)>>
                            [] c.section = "badname" ->
                                   <<sec("$$XTIMAGE", XbeBase, XbeImageAddr, 2000)>>
                            [] c.section = "cut" ->
                                   <<sec("$$XTIMAGE", XbeBase + XBE_READ_SIZE, XbeImageAddr, 2000)>>
                            [] OTHER ->
                                   <<sec("$$XTIMAGE", XbeBase + 320, XbeImageAddr,
                                         IF c.image = "short" THEN 3 ELSE 2000)>>),
         discOpen |-> c.discOpen,
         ptOpen   |-> c.ptOpen,
         ptNull   |-> c.ptNull,
         exeOpen  |-> c.exe # "notexe",
         xtimage  |-> [magic |-> CASE c.image = "xpr0" -> XBOX_XPR0_MAGIC
                                   [] c.image = "png" -> PNG_MAGIC
                                   [] OTHER -> <<71, 73, 70, 56>>,
                       xprOpen |-> c.xprOpen, png |-> c.png, xprImage |-> c.xprImage]]

(* The XBE decoder: one instance on one file.                              *)

NoXbeCall == [op |-> "none", arg |-> 0, ret |-> 0, written |-> FALSE,
              image |-> NullImage, called |-> FALSE, init |-> 1, exe |-> NoExeLog]

XbeReturn(op, arg, r) ==
    /\ xbeObj' = r.d
    /\ xbeCall' = [op |-> op, arg |-> arg, ret |-> r.ret, written |-> r.written,
                   image |-> r.image, called |-> r.called, init |-> r.init,
                   exe |-> NoExeLog]
    /\ UNCHANGED <<bigEndian, sapVars, xdbfVars, detVars, xexVars, n3dsVars, mtVars, xbeFile>>

XBE_Construct ==
    /\ xbeObj.state = "new"
    /\ xbeObj' = Xbox_XBE_init(xbeObj, xbeFile)
    /\ xbeCall' = [NoXbeCall EXCEPT !.op = "init"]
    /\ UNCHANGED <<bigEndian, sapVars, xdbfVars, detVars, xexVars, n3dsVars, mtVars, xbeFile>>

XBE_loadInternalImage ==
    /\ xbeObj.state = "ready"
    /\ \E imageType \in {IMG_INT_ICON, IMG_INT_BANNER} :
          XbeReturn("loadInternalImage", imageType,
                    Xbox_XBE_loadInternalImage(xbeObj, xbeFile, imageType))

XBE_supportedImageTypes ==
    /\ xbeObj.state = "ready"
    /\ XbeReturn("supportedImageTypes", 0, Xbox_XBE_supportedImageTypes(xbeObj, xbeFile))

XBE_loadFieldData ==
    /\ xbeObj.state = "ready"
    /\ xbeObj' = Xbox_XBE_loadFieldData(xbeObj, xbeFile).d
    /\ xbeCall' = [NoXbeCall EXCEPT !.op = "loadFieldData",
                                    !.ret = Xbox_XBE_loadFieldData(xbeObj, xbeFile).ret,
                                    !.exe = Xbox_XBE_loadFieldData(xbeObj, xbeFile).log]
    /\ UNCHANGED <<bigEndian, sapVars, xdbfVars, detVars, xexVars, n3dsVars, mtVars, xbeFile>>

InitXBE ==
    /\ bigEndian \in BOOLEAN
    /\ SapIdle
    /\ XdbfIdle
    /\ DetIdle
    /\ XexIdle
    /\ N3dsIdle
    /\ MtIdle
    /\ \E c \in XbeConfigs : xbeFile = XbeFile(c)
    /\ xbeObj = Xbox_XBE_Private
    /\ xbeCall = NoXbeCall

NextXBE ==
    \/ XBE_Construct
    \/ XBE_loadInternalImage
    \/ XBE_supportedImageTypes
    \/ XBE_loadFieldData

SpecXBE == InitXBE /\ [][NextXBE]_vars

-----------------------------------------------------------------------------
(* Nintendo3DS: the headers of a 3DS file, loaded on demand.               *)

\* enum HeadersPresent
HEADER_SMDH == 1
HEADER_NCCH == 2
HEADER_EXHEADER == 4
HEADER_3DSX == 4
HEADER_CIA == 8
HEADER_TMD == 16
HEADER_NCSD == 32

N3DS_3DSX_STANDARD_HEADER_SIZE == 32
SizeofCiaMetaHeader == 1024             \* sizeof(N3DS_CIA_Meta_Header_t)
SizeofNcchHeaderNoSig == 256            \* sizeof(N3DS_NCCH_Header_NoSig_t)
SizeofNcchHeader == 512                 \* sizeof(N3DS_NCCH_Header_t)
N3DS_NCCH_EXHEADER_MIN_SIZE == 1024
SizeofNcchExHeader == 2048              \* sizeof(ncch_exheader)
SizeofTmd == 2500                       \* sizeof(N3DS_TMD_t)
SizeofTmdHeader == 196                  \* sizeof(N3DS_TMD_Header_t)
SizeofContentChunkRecord == 48          \* sizeof(N3DS_Content_Chunk_Record_t)
CardInfoEnd == 8192                     \* 0x2000
SrlMinLength == 32768                   \* 0x8000

\* headers_loaded & bit, headers_loaded |= bit
HasHeader(headers_loaded, bit) == (headers_loaded \div bit) % 2 = 1
OrHeader(headers_loaded, bit) ==
    IF HasHeader(headers_loaded, bit) THEN headers_loaded ELSE headers_loaded + bit

\* The object has two fields that the class has not: chunks_read, the indexes
\* at which the DSiWare check of loadTMD() read content_chunks[], and
\* exheader_read, the largest number of bytes a read put into ncch_exheader.
\* A header buffer holds zeroes ("zero", from the constructor's memset), the
\* bytes of a sound header ("loaded"), those of a header with a wrong magic
\* number or that failed to decrypt ("junk"), or a part of what a short read
\* got ("partial").
ZeroNcch == [buf |-> "zero", noCrypto |-> FALSE, fixedKey |-> FALSE,
             exheader_size |-> 0]

\* Nintendo3DSPrivate::Nintendo3DSPrivate()
Nintendo3DSPrivate ==
    [state |-> "new", file |-> "null", isValid |-> FALSE, romType |-> -1,
     headers_loaded |-> 0, media_unit_shift |-> 9, mxh |-> "zero",
     content_count |-> 0, content_chunks |-> <<>>, content_start_addr |-> 0,
     ncch_offset |-> 0, ncch_length |-> 0,
     smdh |-> "zero", tmd_header |-> "zero", ncch_header |-> ZeroNcch,
     ncch_exheader |-> "zero", exefs_reader |-> FALSE, srlData |-> FALSE,
     img_icon |-> NullImage, fields |-> <<>>,
     chunks_read |-> {}, exheader_read |-> 0]

\* Nintendo3DS::Nintendo3DS(): f.romType is what isRomSupported_static()
\* returns for the header and the size of the file.
Nintendo3DS_init(d, f) ==
    IF FileRead(f.size, 0, SizeofCiaHeader) # SizeofCiaHeader
        THEN [d EXCEPT !.state = "ready", !.file = "open"]
    ELSE IF f.romType = ROM_TYPE_SMDH
        THEN IF f.size < SizeofSmdhHeaderAndIcon
             THEN [d EXCEPT !.state = "ready", !.file = "open", !.romType = f.romType]
             ELSE [d EXCEPT !.state = "ready", !.file = "open", !.romType = f.romType,
                            !.isValid = TRUE]
    ELSE IF f.romType = ROM_TYPE_3DSX
        THEN [d EXCEPT !.state = "ready", !.file = "open", !.romType = f.romType,
                       !.mxh = "3dsx",
                       !.headers_loaded = OrHeader(@, HEADER_3DSX), !.isValid = TRUE]
    ELSE IF f.romType = ROM_TYPE_CIA
        THEN [d EXCEPT !.state = "ready", !.file = "open", !.romType = f.romType,
                       !.mxh = "cia",
                       !.headers_loaded = OrHeader(@, HEADER_CIA), !.isValid = TRUE]
    ELSE IF f.romType = ROM_TYPE_CCI
        THEN [d EXCEPT !.state = "ready", !.file = "open", !.romType = f.romType,
                       !.mxh = "ncsd", !.media_unit_shift = 9 + f.ncsd.unitFlag,
                       !.headers_loaded = OrHeader(@, HEADER_NCSD), !.isValid = TRUE]
    ELSE IF f.romType = ROM_TYPE_eMMC
        THEN [d EXCEPT !.state = "ready", !.file = "open", !.romType = f.romType,
                       !.mxh = "ncsd",
                       !.headers_loaded = OrHeader(@, HEADER_NCSD), !.isValid = TRUE]
    ELSE [d EXCEPT !.state = "ready", !.file = "open"]

\* What a load function left: the object and the return value.
N3Ret(d, ret) == [d |-> d, ret |-> ret]

\* Nintendo3DSPrivate::toNext64() on a small value.
Next64(n) == U32Int(toNext64(U32(n)))

\* The start of the TMD of a CIA.
TmdStart(f) ==
    Next64(f.cia.header_size) + Next64(f.cia.cert_chain_size) + Next64(f.cia.ticket_size)

\* loadTMD(): the DSiWare check, the length of content_chunks[0] being read;
\* srlData is set where the content is long enough and opens as an SRL.
loadTMD_dsi(d, f, length) ==
    IF length >= SrlMinLength /\ f.srl
        THEN N3Ret([d EXCEPT !.srlData = TRUE,
                             !.headers_loaded = OrHeader(@, HEADER_TMD)], 0)
    ELSE N3Ret([d EXCEPT !.headers_loaded = OrHeader(@, HEADER_TMD)], 0)

\* loadTMD(): if (content_count <= 2 && !this->srlData).  content_chunks[0]
\* of an array of no records is whatever lies behind the allocation.
loadTMD_srl(d, f) ==
    IF d.content_count <= 2 /\ ~d.srlData
        THEN loadTMD_dsi([d EXCEPT !.chunks_read = @ \cup {0}], f,
                         IF d.content_count = 0 THEN f.tmd.beyond
                         ELSE d.content_chunks[1].size)
    ELSE N3Ret([d EXCEPT !.headers_loaded = OrHeader(@, HEADER_TMD)], 0)

\* loadTMD(): from the read of the TMD header on, sig_len being known.
loadTMD_read(d, f, tmd_start, sig_len) ==
    IF f.cia.tmd_size < SizeofTmd + sig_len THEN N3Ret(d, -5)
    ELSE IF FileRead(f.size, tmd_start + sig_len, SizeofTmdHeader) # SizeofTmdHeader
        THEN N3Ret([d EXCEPT !.tmd_header = "partial"], -7)
    ELSE IF FileRead(f.size, tmd_start + sig_len + SizeofTmd,
                     f.tmd.content_count * SizeofContentChunkRecord)
            # f.tmd.content_count * SizeofContentChunkRecord
        THEN N3Ret([d EXCEPT !.tmd_header = "loaded", !.content_count = 0,
                             !.content_chunks = <<>>], -9)
    ELSE loadTMD_srl([d EXCEPT !.tmd_header = "loaded",
                               !.content_count = f.tmd.content_count,
                               !.content_chunks = f.tmd.chunks,
                               !.content_start_addr = tmd_start + Next64(f.cia.tmd_size)],
                     f)

\* Nintendo3DSPrivate::loadTMD(): signature types are 0x00010000..0x00010005.
loadTMD(d, f) ==
    IF HasHeader(d.headers_loaded, HEADER_TMD) THEN N3Ret(d, 0)
    ELSE IF d.romType # ROM_TYPE_CIA THEN N3Ret(d, -1)
    ELSE IF FileRead(f.size, TmdStart(f), 4) # 4 THEN N3Ret(d, -3)
    ELSE IF f.tmd.signature_type[1] # 1 \/ f.tmd.signature_type[2] >= 8 THEN N3Ret(d, -4)
    ELSE IF f.tmd.signature_type[2] % 8 \in {0, 3}
        THEN loadTMD_read(d, f, TmdStart(f), 4 + 512 + 60)
    ELSE IF f.tmd.signature_type[2] % 8 \in {1, 4}
        THEN loadTMD_read(d, f, TmdStart(f), 4 + 256 + 60)
    ELSE IF f.tmd.signature_type[2] % 8 \in {2, 5}
        THEN loadTMD_read(d, f, TmdStart(f), 4 + 60 + 64)
    ELSE N3Ret(d, -4)

\* What loadNCCH(idx, ...) left: the object, the return value, what the
\* buffer at pNcchHeader holds (read: whether it was written to), and the
\* offset and length it found.
NcchRet(d, ret, read, hdr, offset, length) ==
    [d |-> d, ret |-> ret, read |-> read, hdr |-> hdr, offset |-> offset,
     length |-> length]

\* The NCCH header that a read at the given address gets.
NcchAt(f, addr) ==
    IF FileRead(f.size, addr, SizeofNcchHeaderNoSig) # SizeofNcchHeaderNoSig
        THEN [ZeroNcch EXCEPT !.buf = "partial"]
    ELSE IF addr = f.ncch.at + 256 /\ f.ncch.magicOk
        THEN [buf |-> "loaded", noCrypto |-> f.ncch.noCrypto,
              fixedKey |-> f.ncch.fixedKey, exheader_size |-> f.ncch.exheader_size]
    ELSE [ZeroNcch EXCEPT !.buf = "junk"]

\* loadNCCH(idx, ...): the read of the header and the check of its magic.
loadNCCH_read(d, hdr, offset, length) ==
    IF hdr.buf = "partial" THEN NcchRet(d, -5, TRUE, hdr, 0, 0)
    ELSE IF hdr.buf # "loaded" THEN NcchRet(d, -99, TRUE, hdr, 0, 0)
    ELSE NcchRet(d, 0, TRUE, hdr, offset, length)

\* loadNCCH(idx, ...), CIA: the content chunk with the index, from chunk i on.
RECURSIVE loadNCCH_chunk(_, _, _, _, _)
loadNCCH_chunk(d, f, idx, i, offset) ==
    IF i > d.content_count THEN NcchRet(d, -4, FALSE, ZeroNcch, 0, 0)
    ELSE IF d.content_chunks[i].index = idx
        THEN IF d.content_chunks[i].size = 0 THEN NcchRet(d, -4, FALSE, ZeroNcch, 0, 0)
             ELSE loadNCCH_read(d, NcchAt(f, offset + d.content_start_addr + 256),
                                offset + d.content_start_addr, d.content_chunks[i].size)
    ELSE loadNCCH_chunk(d, f, idx, i + 1, offset + Next64(d.content_chunks[i].size))

\* loadNCCH(idx, ...), CIA: r is what loadTMD() left.
loadNCCH_cia(r, f, idx) ==
    IF r.ret # 0 THEN NcchRet(r.d, -2, FALSE, ZeroNcch, 0, 0)
    ELSE IF idx >= r.d.content_count THEN NcchRet(r.d, -3, FALSE, ZeroNcch, 0, 0)
    ELSE loadNCCH_chunk(r.d, f, idx, 1, 0)

\* 2^n
RECURSIVE Pow2(_)
Pow2(n) == IF n = 0 THEN 1 ELSE 2 * Pow2(n - 1)

\* Nintendo3DSPrivate::loadNCCH(idx, pNcchHeader, pOffset, pLength)
loadNCCH_idx(d, f, idx) ==
    IF d.romType = ROM_TYPE_CIA
        THEN IF ~HasHeader(d.headers_loaded, HEADER_CIA)
             THEN NcchRet(d, -1, FALSE, ZeroNcch, 0, 0)
             ELSE loadNCCH_cia(loadTMD(d, f), f, idx)
    ELSE IF d.romType = ROM_TYPE_CCI
        THEN IF ~HasHeader(d.headers_loaded, HEADER_NCSD)
                 THEN NcchRet(d, -1, FALSE, ZeroNcch, 0, 0)
             ELSE IF idx < 0 \/ idx >= 8 THEN NcchRet(d, -2, FALSE, ZeroNcch, 0, 0)
             ELSE IF f.ncsd.partitions[idx + 1].offset * Pow2(d.media_unit_shift)
                        <= CardInfoEnd
                 THEN NcchRet(d, -3, FALSE, ZeroNcch, 0, 0)
             ELSE loadNCCH_read(
                      d,
                      NcchAt(f, f.ncsd.partitions[idx + 1].offset
                                    * Pow2(d.media_unit_shift) + 256),
                      f.ncsd.partitions[idx + 1].offset * Pow2(d.media_unit_shift),
                      f.ncsd.partitions[idx + 1].length * Pow2(d.media_unit_shift))
    ELSE NcchRet(d, -98, FALSE, ZeroNcch, 0, 0)

\* loadNCCH(): r is what loadNCCH(0, &ncch_header, &ncch_offset,
\* &ncch_length) left.
loadNCCH_store(r) ==
    IF r.ret = 0
        THEN N3Ret([r.d EXCEPT !.ncch_header = r.hdr, !.ncch_offset = r.offset,
                               !.ncch_length = r.length,
                               !.headers_loaded = OrHeader(@, HEADER_NCCH)], 0)
    ELSE IF r.read THEN N3Ret([r.d EXCEPT !.ncch_header = r.hdr], r.ret)
    ELSE N3Ret(r.d, r.ret)

\* Nintendo3DSPrivate::loadNCCH()
loadNCCH(d, f) ==
    IF HasHeader(d.headers_loaded, HEADER_NCCH) THEN N3Ret(d, 0)
    ELSE loadNCCH_store(loadNCCH_idx(d, f, 0))

\* loadExeFS(): r is what loadNCCH() left.
loadExeFS_open(r, f) ==
    IF r.ret # 0 THEN N3Ret(r.d, -2)
    ELSE IF ~f.exefs.open THEN N3Ret(r.d, -97)
    ELSE N3Ret([r.d EXCEPT !.exefs_reader = TRUE], 0)

\* Nintendo3DSPrivate::loadExeFS()
loadExeFS(d, f) ==
    IF d.exefs_reader THEN N3Ret(d, 0)
    ELSE loadExeFS_open(loadNCCH(d, f), f)

\* loadExHeader(): the decryption of what was read, with the AES cipher of
\* AesCipherFactory::getInstance(), a null pointer where no cipher is built in.
loadExHeader_decrypt(d, f) ==
    IF f.decryption = "off" \/ d.ncch_header.noCrypto
        THEN N3Ret([d EXCEPT !.ncch_exheader = "loaded",
                             !.headers_loaded = OrHeader(@, HEADER_EXHEADER)], 0)
    ELSE IF f.decryption = "null"
        THEN N3Ret([d EXCEPT !.state = "crashed", !.ncch_exheader = "junk"], 1)
    ELSE IF f.decryption = "fail"
        THEN N3Ret([d EXCEPT !.ncch_exheader = "junk"], -99)
    ELSE N3Ret([d EXCEPT !.ncch_exheader = "loaded",
                         !.headers_loaded = OrHeader(@, HEADER_EXHEADER)], 0)

\* loadExHeader(): after file->read(&ncch_exheader, exheader_length) put
\* `got` bytes into ncch_exheader.  A read of more bytes than the structure
\* holds runs over the members behind it; the call goes on or the process
\* ends, as the file's overrun field says.
loadExHeader_got(d, f, exheader_length, got) ==
    IF got > SizeofNcchExHeader /\ f.ncch.overrun = "crash"
        THEN N3Ret([d EXCEPT !.state = "crashed", !.ncch_exheader = "junk",
                             !.exheader_read = Max(@, got)], 1)
    ELSE IF got # exheader_length
        THEN N3Ret([d EXCEPT !.ncch_exheader = IF got = 0 THEN @ ELSE "partial",
                             !.exheader_read = Max(@, got)], -98)
    ELSE loadExHeader_decrypt([d EXCEPT !.exheader_read = Max(@, got)], f)

\* loadExHeader(): the read of the ExHeader, of its size rounded up to 16.
loadExHeader_read(d, f, exheader_length) ==
    IF d.ncch_header.exheader_size < N3DS_NCCH_EXHEADER_MIN_SIZE THEN N3Ret(d, -96)
    ELSE loadExHeader_got(d, f, exheader_length,
                          FileRead(f.size, d.ncch_offset + SizeofNcchHeader,
                                   exheader_length))

\* loadExHeader(): the crypto settings; r is what loadNCCH() left.
loadExHeader_crypto(r, f) ==
    IF r.ret # 0 THEN N3Ret(r.d, -2)
    ELSE IF f.decryption # "off" /\ ~r.d.ncch_header.noCrypto /\ ~r.d.ncch_header.fixedKey
        THEN N3Ret(r.d, -95)
    ELSE IF f.decryption = "off" /\ ~r.d.ncch_header.noCrypto THEN N3Ret(r.d, -95)
    ELSE loadExHeader_read(r.d, f,
                           ((r.d.ncch_header.exheader_size + 15) \div 16) * 16)

\* A loadExHeader() whose first test is of HEADER_NCCH; C18 must tell a
\* headers_loaded that loses a bit from one that does not.
loadExHeader_Clears(d, f) ==
    IF HasHeader(d.headers_loaded, HEADER_NCCH) THEN N3Ret([d EXCEPT !.headers_loaded = 0], 0)
    ELSE loadExHeader_crypto(loadNCCH(d, f), f)

\* Nintendo3DSPrivate::loadExHeader()
loadExHeader(d, f) ==
    IF HasHeader(d.headers_loaded, HEADER_EXHEADER) THEN N3Ret(d, 0)
    ELSE loadExHeader_crypto(loadNCCH(d, f), f)

\* The SMDH section that a read at the given address of the file gets.
SmdhAt(f, addr) ==
    IF FileRead(f.size, addr, SizeofSmdhHeaderAndIcon) # SizeofSmdhHeaderAndIcon
        THEN "partial"
    ELSE IF addr = f.smdh.at /\ f.smdh.magicOk THEN "loaded"
    ELSE "junk"

\* loadSMDH(): the check of the magic number of what was read.
loadSMDH_verify(d, smdh) ==
    IF smdh # "loaded" THEN N3Ret([d EXCEPT !.smdh = smdh], -99)
    ELSE N3Ret([d EXCEPT !.smdh = smdh,
                         !.headers_loaded = OrHeader(@, HEADER_SMDH)], 0)

\* loadSMDH(): the read of the SMDH section of the file at an address.
loadSMDH_file(d, f, addr, err) ==
    IF SmdhAt(f, addr) = "partial"
        THEN N3Ret([d EXCEPT !.smdh = IF FileRead(f.size, addr, 1) = 0 THEN @
                                      ELSE "partial"], err)
    ELSE loadSMDH_verify(d, SmdhAt(f, addr))

\* loadSMDH(), CCI and CIA without a meta section: the "icon" file of the
\* ExeFS; r is what loadExeFS() left.
loadSMDH_exefs(r, f) ==
    IF r.ret # 0 THEN N3Ret(r.d, -6)
    ELSE IF ~f.exefs.readable THEN N3Ret(r.d, -7)
    ELSE IF f.exefs.icon = "none" THEN N3Ret(r.d, -8)
    ELSE IF f.exefs.icon = "small" THEN N3Ret(r.d, -9)
    ELSE IF f.exefs.icon = "cut" THEN N3Ret([r.d EXCEPT !.smdh = "partial"], -11)
    ELSE loadSMDH_verify(r.d, IF f.exefs.icon = "ok" THEN "loaded" ELSE "junk")

\* The address of the SMDH section in the meta section of a CIA.
CiaSmdhAddr(f) ==
    TmdStart(f) + Next64(f.cia.tmd_size) + Next64(f.cia.content_size)
    + SizeofCiaMetaHeader

\* Nintendo3DSPrivate::loadSMDH()
loadSMDH(d, f) ==
    IF HasHeader(d.headers_loaded, HEADER_SMDH) THEN N3Ret(d, 0)
    ELSE IF d.romType = ROM_TYPE_SMDH THEN loadSMDH_file(d, f, 0, -1)
    ELSE IF d.romType = ROM_TYPE_3DSX
        THEN IF ~HasHeader(d.headers_loaded, HEADER_3DSX) THEN N3Ret(d, -2)
             ELSE IF f.hb3dsx.header_size <= N3DS_3DSX_STANDARD_HEADER_SIZE
                 THEN N3Ret(d, -3)
             ELSE loadSMDH_file(d, f, f.hb3dsx.smdh_offset, -5)
    ELSE IF d.romType = ROM_TYPE_CIA
        THEN IF ~HasHeader(d.headers_loaded, HEADER_CIA) THEN N3Ret(d, -6)
             ELSE IF /\ f.cia.meta_size >= SizeofSmdhHeaderAndIcon
                     /\ SmdhAt(f, CiaSmdhAddr(f)) # "partial"
                 THEN loadSMDH_verify(d, SmdhAt(f, CiaSmdhAddr(f)))
             ELSE loadSMDH_exefs(
                      loadExeFS(
                          IF /\ f.cia.meta_size >= SizeofSmdhHeaderAndIcon
                             /\ FileRead(f.size, CiaSmdhAddr(f), 1) # 0
                          THEN [d EXCEPT !.smdh = "partial"] ELSE d, f), f)
    ELSE IF d.romType = ROM_TYPE_CCI THEN loadSMDH_exefs(loadExeFS(d, f), f)
    ELSE N3Ret(d, -98)

\* What loadIcon() and loadInternalImage() left: the object, the return
\* value and the image.
IconRet(d, ret, image) == [d |-> d, ret |-> ret, image |-> image]

\* loadIcon(1): the decoding of smdh.icon.large; r is what loadSMDH() left.
loadIcon_decode(r, f) ==
    IF r.ret # 0 THEN IconRet(r.d, 0, NullImage)
    ELSE IconRet([r.d EXCEPT !.img_icon = f.icon], 0, f.icon)

\* Nintendo3DSPrivate::loadIcon(1)
loadIcon_large(d, f) ==
    IF d.img_icon # NullImage THEN IconRet(d, 0, d.img_icon)
    ELSE IF d.file = "null" \/ ~d.isValid THEN IconRet(d, 0, NullImage)
    ELSE loadIcon_decode(loadSMDH(d, f), f)

\* fields->addTab(), fields->setTabName(0, ...), fields->addField_*()
AddField(d, name) == [d EXCEPT !.fields = Append(@, name)]

\* addTitleIdAndProductCodeFields(): the product code; r is what loadNCCH() left.
addTitleId_product(r) == IF r.ret = 0 THEN AddField(r.d, "Product Code") ELSE r.d

\* addTitleIdAndProductCodeFields(): the title ID of the NCCH; r is what
\* loadNCCH() left.
addTitleId_ncch(r) == IF r.ret = 0 THEN AddField(r.d, "Title ID") ELSE r.d

\* addTitleIdAndProductCodeFields(): the title ID of the TMD; r is what
\* loadTMD() left.
addTitleId_tmd(r, f) ==
    IF r.ret = 0 THEN AddField(r.d, "Title ID") ELSE addTitleId_ncch(loadNCCH(r.d, f))

\* addTitleIdAndProductCodeFields(): the title ID.
addTitleId_tid(d, f) ==
    IF d.romType = ROM_TYPE_CCI /\ HasHeader(d.headers_loaded, HEADER_NCSD)
        THEN AddField(d, "Media ID")
    ELSE addTitleId_tmd(loadTMD(d, f), f)

\* addTitleIdAndProductCodeFields(): from the product code on.
addTitleId_code(d, f) == addTitleId_product(loadNCCH(d, f))

\* Nintendo3DSPrivate::addTitleIdAndProductCodeFields()
addTitleIdAndProductCodeFields(d, f) == addTitleId_code(addTitleId_tid(d, f), f)

\* loadFieldData(): the ExHeader tab.
loadFieldData_exheaderTab(d) ==
    IF d.state = "crashed" THEN N3Ret(d, 1)
    ELSE IF HasHeader(d.headers_loaded, HEADER_EXHEADER)
        THEN N3Ret(AddField(AddField(d, "ExHeader"), "Process Name"),
                   Len(d.fields) + 1)
    ELSE N3Ret(d, Len(d.fields))

\* loadFieldData(): the contents of the CIA tab.
loadFieldData_contents(d) == loadFieldData_exheaderTab(AddField(d, "Contents"))

\* loadFieldData(): the CIA tab.
loadFieldData_tmdTab(d, f, haveSeparateSMDHTab) ==
    IF ~HasHeader(d.headers_loaded, HEADER_TMD) THEN loadFieldData_exheaderTab(d)
    ELSE IF haveSeparateSMDHTab
        THEN loadFieldData_contents(addTitleIdAndProductCodeFields(AddField(d, "CIA"), f))
    ELSE loadFieldData_contents(AddField(d, "CIA"))

\* loadFieldData(): the partitions of the NCSD tab.
loadFieldData_partitions(d, f, haveSeparateSMDHTab) ==
    loadFieldData_tmdTab(AddField(d, "Partitions"), f, haveSeparateSMDHTab)

\* loadFieldData(): the NCSD tab.
loadFieldData_ncsdTab(d, f, haveSeparateSMDHTab) ==
    IF ~HasHeader(d.headers_loaded, HEADER_NCSD)
        THEN loadFieldData_tmdTab(d, f, haveSeparateSMDHTab)
    ELSE IF haveSeparateSMDHTab
        THEN loadFieldData_partitions(
                 addTitleIdAndProductCodeFields(AddField(d, "NCSD"), f), f, TRUE)
    ELSE loadFieldData_partitions(AddField(d, "NCSD"), f, FALSE)

\* loadFieldData(): the fields of the SMDH header.
loadFieldData_smdhFields(d, f, haveSeparateSMDHTab) ==
    loadFieldData_ncsdTab(AddField(AddField(d, "Title"), "Region Code"), f,
                          haveSeparateSMDHTab)

\* loadFieldData(): the first tab, once the headers are loaded.
loadFieldData_smdhTab(d, f) ==
    IF d.state = "crashed" THEN N3Ret(d, 1)
    ELSE IF HasHeader(d.headers_loaded, HEADER_SMDH)
        THEN IF HasHeader(d.headers_loaded, HEADER_NCSD)
                \/ HasHeader(d.headers_loaded, HEADER_TMD)
             THEN loadFieldData_smdhFields(AddField(d, "SMDH"), f, TRUE)
             ELSE loadFieldData_smdhFields(
                      addTitleIdAndProductCodeFields(AddField(d, "SMDH"), f), f, FALSE)
    ELSE IF d.srlData
        THEN IF HasHeader(d.headers_loaded, HEADER_NCSD)
                \/ HasHeader(d.headers_loaded, HEADER_TMD)
             THEN loadFieldData_ncsdTab(AddField(d, "DSiWare"), f, TRUE)
             ELSE loadFieldData_ncsdTab(
                      addTitleIdAndProductCodeFields(AddField(d, "DSiWare"), f), f, FALSE)
    ELSE loadFieldData_ncsdTab(addTitleIdAndProductCodeFields(d, f), f, FALSE)

\* loadFieldData(): if (!(headers_loaded & HEADER_EXHEADER)) loadExHeader()
loadFieldData_exheader(d, f) ==
    loadFieldData_smdhTab(IF HasHeader(d.headers_loaded, HEADER_EXHEADER) THEN d
                          ELSE loadExHeader(d, f).d, f)

\* loadFieldData(): the TMD of a CIA
loadFieldData_tmd(d, f) ==
    loadFieldData_exheader(IF d.romType = ROM_TYPE_CIA
                              /\ ~HasHeader(d.headers_loaded, HEADER_TMD)
                           THEN loadTMD(d, f).d ELSE d, f)

\* Nintendo3DS::loadFieldData()
Nintendo3DS_loadFieldData(d, f) ==
    IF d.fields # <<>> THEN N3Ret(d, 0)
    ELSE IF d.file = "null" THEN N3Ret(d, -9)
    ELSE IF ~d.isValid \/ d.romType < 0 THEN N3Ret(d, -5)
    ELSE loadFieldData_tmd(IF HasHeader(d.headers_loaded, HEADER_SMDH) THEN d
                           ELSE loadSMDH(d, f).d, f)

\* loadInternalImage(): return (*pImage != nullptr ? 0 : -EIO)
loadInternalImage_icon(r) ==
    IconRet(r.d, IF r.image # NullImage THEN 0 ELSE -5, r.image)

\* loadInternalImage(): after the TMD of a CIA.
loadInternalImage_type(d, f, imageType) ==
    IF d.romType = ROM_TYPE_CIA /\ d.srlData
        THEN IconRet(d, IF f.srlImage # NullImage THEN 0 ELSE -5, f.srlImage)
    ELSE IF imageType # IMG_INT_ICON THEN IconRet(d, -2, NullImage)
    ELSE IF d.img_icon # NullImage THEN IconRet(d, 0, d.img_icon)
    ELSE IF d.file = "null" THEN IconRet(d, -9, NullImage)
    ELSE IF ~d.isValid THEN IconRet(d, -5, NullImage)
    ELSE loadInternalImage_icon(loadIcon_large(d, f))

\* Nintendo3DS::loadInternalImage()
Nintendo3DS_loadInternalImage(d, f, imageType) ==
    IF imageType < IMG_INT_MIN \/ imageType > IMG_INT_MAX THEN IconRet(d, -34, NullImage)
    ELSE loadInternalImage_type(
             IF d.romType = ROM_TYPE_CIA /\ ~HasHeader(d.headers_loaded, HEADER_TMD)
             THEN loadTMD(d, f).d ELSE d, f, imageType)

(* 3DS files: the type the header makes it, and what lies where the       *)
(* loaders look.                                                           *)

N3dsDefault ==
    [type |-> "cci", smdh |-> "ok", ncch |-> "ok", crypto |-> "none",
     exheader |-> "ok", tmd |-> "ok", meta |-> FALSE, exefs |-> "ok",
     decryption |-> "ok", srl |-> FALSE]

N3dsConfigs ==
    {[N3dsDefault EXCEPT !.type = t] : t \in {"unknown", "short", "emmc"}}
    \cup {[N3dsDefault EXCEPT !.type = t, !.smdh = s] :
             t \in {"smdh", "3dsx", "3dsx-plain"}, s \in {"ok", "badmagic", "cut"}}
    \cup {[N3dsDefault EXCEPT !.type = t, !.ncch = n] :
             t \in {"cci", "cia"}, n \in {"badmagic", "low", "cut"}}
    \cup {[N3dsDefault EXCEPT !.type = t, !.crypto = c, !.exheader = x,
                              !.decryption = k, !.exefs = e] :
             t \in {"cci", "cia"}, c \in {"none", "fixed", "other"},
             x \in {"ok", "small", "cut", "big", "bigcrash"}, k \in {"off", "ok", "fail", "null"},
             e \in {"ok", "closed", "none", "junk"}}
    \cup {[N3dsDefault EXCEPT !.type = "cia", !.tmd = t, !.meta = m, !.srl = s,
                              !.smdh = h] :
             t \in {"ok", "badsig", "small", "cut", "empty", "emptysrl"},
             m \in BOOLEAN, s \in BOOLEAN,
             h \in {"ok", "badmagic"}}

N3dsFile(c, be) ==
    LET CciNcch   == 16384
        CiaCert   == 2560
        CiaTicket == 848
        CiaTmd    == 2868
        CiaContent == 40000
        CiaMeta   == 15040
        CiaNcch   == 14592
        CiaSmdh   == 55616
        X3dsSmdh  == 1000
        ncchAt    == IF c.type = "cia" THEN CiaNcch ELSE CciNcch
        size ==
            CASE c.type = "short" -> SizeofCiaHeader - 1
              [] c.type = "smdh" ->
                     IF c.smdh = "cut" THEN SizeofSmdhHeaderAndIcon - 1
                     ELSE SizeofSmdhHeaderAndIcon
              [] c.type \in {"3dsx", "3dsx-plain"} ->
                     IF c.smdh = "cut" THEN X3dsSmdh + 9000
                     ELSE X3dsSmdh + SizeofSmdhHeaderAndIcon
              [] c.type = "cia" /\ c.tmd = "cut" -> 11712 + 400
              [] c.ncch = "cut" -> ncchAt + 300
              [] c.exheader = "cut" -> ncchAt + SizeofNcchHeader + 500
              [] c.type = "cia" ->
                     IF c.meta THEN CiaSmdh + SizeofSmdhHeaderAndIcon + 1024
                     ELSE CiaNcch + CiaContent
              [] OTHER -> 100000
        header ==
            CASE c.type = "smdh" ->
                     N3dsHeader(N3DS_SMDH_HEADER_MAGIC, U32(0), U32(0), U32(0), U32(0),
                                U32(0), U32(0), FALSE, crypt_cci)
              [] c.type \in {"3dsx", "3dsx-plain"} ->
                     N3dsHeader(N3DS_3DSX_HEADER_MAGIC, U32(0), U32(0), U32(0), U32(0),
                                U32(0), U32(0), FALSE, crypt_cci)
              [] c.type = "cci" ->
                     N3dsHeader(<<0, 0, 0, 0>>, U32(0), U32(0), U32(0), U32(0),
                                U32(0), U32(0), TRUE, crypt_cci)
              [] c.type = "emmc" ->
                     N3dsHeader(<<0, 0, 0, 0>>, U32(0), U32(0), U32(0), U32(0),
                                U32(0), U32(0), TRUE, crypt_emmc_new)
              [] c.type = "cia" ->
                     N3dsHeader(LE32(U32(SizeofCiaHeader)), U32(CiaCert), U32(CiaTicket),
                                U32(IF c.tmd = "small" THEN 100 ELSE CiaTmd),
                                U32(IF c.meta /\ c.tmd # "cut" THEN CiaMeta ELSE 0),
                                U32(IF c.tmd = "cut" THEN 0 ELSE CiaContent), U32(0),
                                FALSE, crypt_cci)
              [] OTHER -> Zeros(N3DS_MinHeader)
    IN  [size    |-> size,
         romType |-> Nintendo3DS_isRomSupported_static(
                         DetectInfo(header, IF c.type = "cia" THEN DotCia ELSE NullExt,
                                    size), be),
         hb3dsx  |-> [header_size |-> IF c.type = "3dsx" THEN Sizeof3dsxHeader
                                      ELSE N3DS_3DSX_STANDARD_HEADER_SIZE,
                      smdh_offset |-> X3dsSmdh],
         cia     |-> [header_size |-> SizeofCiaHeader, cert_chain_size |-> CiaCert,
                      ticket_size |-> CiaTicket,
                      tmd_size |-> IF c.tmd = "small" THEN 100 ELSE CiaTmd,
                      meta_size |-> IF c.meta /\ c.tmd # "cut" THEN CiaMeta ELSE 0,
                      content_size |-> IF c.tmd = "cut" THEN 0 ELSE CiaContent],
         tmd     |-> [signature_type |-> IF c.tmd = "badsig" THEN <<2, 0>> ELSE <<1, 4>>,
                      content_count |-> IF c.tmd \in {"empty", "emptysrl"} THEN 0 ELSE 1,
                      chunks |-> IF c.tmd \in {"empty", "emptysrl"} THEN <<>>
                                 ELSE <<[index |-> 0, size |-> CiaContent]>>,
                      beyond |-> IF c.tmd = "emptysrl" THEN CiaContent ELSE 0],
         ncsd    |-> [unitFlag |-> 0,
                      partitions |-> [i \in 1..8 |->
                          IF i = 1
                          THEN [offset |-> IF c.ncch = "low" THEN 16 ELSE CciNcch \div 512,
                                length |-> 100]
                          ELSE [offset |-> 0, length |-> 0]]],
         ncch    |-> [at |-> IF c.ncch = "low" /\ c.type = "cia" THEN 0 ELSE ncchAt,
                      magicOk |-> c.ncch # "badmagic",
                      noCrypto |-> c.crypto = "none", fixedKey |-> c.crypto = "fixed",
                      exheader_size |-> CASE c.exheader = "small" -> 512
                                          [] c.exheader \in {"big", "bigcrash"} -> 4090
                                          [] OTHER -> 1024,
                      overrun |-> IF c.exheader = "bigcrash" THEN "crash"
                                  ELSE "silent"],
         smdh    |-> [at |-> CASE c.type = "smdh" -> 0
                               [] c.type = "cia" -> CiaSmdh
                               [] OTHER -> X3dsSmdh,
                      magicOk |-> c.smdh = "ok"],
         exefs   |-> [open |-> c.exefs # "closed", readable |-> TRUE,
                      icon |-> IF c.exefs = "closed" THEN "none" ELSE c.exefs],
         decryption |-> c.decryption,
         srl     |-> c.srl,
         srlImage |-> 3,
         icon    |-> 4]

(* The 3DS decoder: one instance on one file.  The loaders are private;   *)
(* image(), fields(), supportedImageTypes() and the other accessors call  *)
(* them one at a time on a valid decoder.                                  *)

NoN3dsCall == [op |-> "none", ret |-> 0, image |-> NullImage]

N3dsFrame == UNCHANGED <<bigEndian, sapVars, xdbfVars, detVars, xexVars, xbeVars, mtVars, n3dsFile>>

N3dsReturn(op, r, image) ==
    /\ n3dsObj' = r.d
    /\ n3dsCall' = [op |-> op, ret |-> r.ret, image |-> image]
    /\ N3dsFrame

N3DS_Construct ==
    /\ n3dsObj.state = "new"
    /\ n3dsObj' = Nintendo3DS_init(n3dsObj, n3dsFile)
    /\ n3dsCall' = [NoN3dsCall EXCEPT !.op = "init"]
    /\ N3dsFrame

N3dsUsable == n3dsObj.state = "ready" /\ n3dsObj.isValid

N3DS_loadSMDH ==
    /\ N3dsUsable
    /\ N3dsReturn("loadSMDH", loadSMDH(n3dsObj, n3dsFile), NullImage)

N3DS_loadNCCH ==
    /\ N3dsUsable
    /\ N3dsReturn("loadNCCH", loadNCCH(n3dsObj, n3dsFile), NullImage)

N3DS_loadTMD ==
    /\ N3dsUsable
    /\ N3dsReturn("loadTMD", loadTMD(n3dsObj, n3dsFile), NullImage)

N3DS_loadExHeader ==
    /\ N3dsUsable
    /\ N3dsReturn("loadExHeader", loadExHeader(n3dsObj, n3dsFile), NullImage)

N3DS_loadExeFS ==
    /\ N3dsUsable
    /\ N3dsReturn("loadExeFS", loadExeFS(n3dsObj, n3dsFile), NullImage)

N3DS_loadFieldData ==
    /\ n3dsObj.state = "ready"
    /\ N3dsReturn("loadFieldData", Nintendo3DS_loadFieldData(n3dsObj, n3dsFile), NullImage)

N3DS_loadInternalImage ==
    /\ n3dsObj.state = "ready"
    /\ \E imageType \in {IMG_INT_ICON, IMG_INT_BANNER, IMG_INT_MAX + 1} :
          LET r == Nintendo3DS_loadInternalImage(n3dsObj, n3dsFile, imageType)
          IN  N3dsReturn("loadInternalImage", r, r.image)

InitN3DS ==
    /\ bigEndian \in BOOLEAN
    /\ SapIdle
    /\ XdbfIdle
    /\ DetIdle
    /\ XexIdle
    /\ XbeIdle
    /\ MtIdle
    /\ \E c \in N3dsConfigs : n3dsFile = N3dsFile(c, bigEndian)
    /\ n3dsObj = Nintendo3DSPrivate
    /\ n3dsCall = NoN3dsCall

NextN3DS ==
    \/ N3DS_Construct
    \/ N3DS_loadSMDH
    \/ N3DS_loadNCCH
    \/ N3DS_loadTMD
    \/ N3DS_loadExHeader
    \/ N3DS_loadExeFS
    \/ N3DS_loadFieldData
    \/ N3DS_loadInternalImage

SpecN3DS == InitN3DS /\ [][NextN3DS]_vars

-----------------------------------------------------------------------------
(* Two threads on one XDBF decoder.  A call of loadStringTable() or of     *)
(* loadImage() is three steps of its thread: the look into the cache with  *)
(* the search of the entry and the check of its size, the read with the    *)
(* validation of what was read, and the store into the cache.  A caller    *)
(* that locks takes the lock before the call and gives it back after.      *)

MaxThreadCalls == 2     \* calls of one thread
Threads == {1, 2}
ThreadLanguages == {XDBF_LANGUAGE_ENGLISH, 2}
ThreadImages == {XDBF_ID_TITLE, 1}

\* A null pointer; an object on the heap is a positive number.
NullObject == 0

\* loadStringTable() with no look into strTbl[]; C16 must tell it from
\* loadStringTable_cached().
loadStringTable_NeverCached(d, language_id) == FALSE

\* loadStringTable(): if (this->strTbl[language_id])
loadStringTable_cached(d, language_id) == d.strTbl[language_id] # NullTable

\* loadStringTable() up to the allocation of the vector; f is what
\* findResource() returns.  next is "cached", "null" (return nullptr) or
\* "read", with the index of the entry.
loadStringTable_find(d, language_id, f) ==
    IF language_id <= XDBF_LANGUAGE_UNKNOWN \/ language_id >= XDBF_LANGUAGE_MAX
        THEN [next |-> "null", entry |-> 0]
    ELSE IF loadStringTable_cached(d, language_id) THEN [next |-> "cached", entry |-> 0]
    ELSE IF d.file = "null" \/ ~d.isValid THEN [next |-> "null", entry |-> 0]
    ELSE IF f.ret = 0 THEN [next |-> "null", entry |-> 0]
    ELSE IF \/ U32Le(be32_to_cpu(d.entryTable.entries[f.ret].length), U32(SizeofXstrHeader))
            \/ U32Lt(U32(OneMiB), be32_to_cpu(d.entryTable.entries[f.ret].length))
        THEN [next |-> "null", entry |-> 0]
    ELSE [next |-> "read", entry |-> f.ret]

\* loadStringTable() from seekAndRead() to the check of the magic number:
\* the table read, NullTable where the vector is deleted.
loadStringTable_read(d, disk, entry, vec) ==
    IF seekAndRead(disk.size,
                   U32Add(be32_to_cpu(d.entryTable.entries[entry].offset), d.data_offset),
                   U32Int(be32_to_cpu(d.entryTable.entries[entry].length)))
           # U32Int(be32_to_cpu(d.entryTable.entries[entry].length))
        THEN NullTable
    ELSE IF ~(/\ vec.kind = "bytes"
              /\ SubSeq(vec.bytes, 1, 4) = XDBF_XSTR_MAGIC
              /\ SubSeq(vec.bytes, 5, 8) = XDBF_XSTR_VERSION)
        THEN NullTable
    ELSE vec.bytes

\* loadImage() up to the allocation of png_buf; f is what findResource()
\* returns.
loadImage_find(d, image_id, f) ==
    IF image_id \in DOMAIN d.map_images THEN [next |-> "cached", entry |-> 0]
    ELSE IF d.entryTable.null THEN [next |-> "null", entry |-> 0]
    ELSE IF d.file = "null" \/ ~d.isValid THEN [next |-> "null", entry |-> 0]
    ELSE IF f.ret = 0 THEN [next |-> "null", entry |-> 0]
    ELSE IF ImageSizeOutOfRange(be32_to_cpu(d.entryTable.entries[f.ret].length))
        THEN [next |-> "null", entry |-> 0]
    ELSE [next |-> "read", entry |-> f.ret]

\* loadImage() from seekAndRead() to RpPng::load(): the image decoded,
\* NullImage on error.
loadImage_read(d, disk, entry, buf) ==
    IF seekAndRead(disk.size,
                   U32Add(be32_to_cpu(d.entryTable.entries[entry].offset), d.data_offset),
                   U32Int(be32_to_cpu(d.entryTable.entries[entry].length)))
           # U32Int(be32_to_cpu(d.entryTable.entries[entry].length))
        THEN NullImage
    ELSE RpPng_load(buf)

\* A thread between two calls, and the heap of a decoder that has loaded
\* nothing: strTbl and map_images hold the addresses of what the decoder's
\* strTbl[] and map_images point to, live the objects allocated and not
\* deleted, loads the loads that were completed.
IdleThread ==
    [pc |-> "idle", calls |-> 0, op |-> "none", key |-> 0, entry |-> 0,
     obj |-> NullObject, ret |-> NullObject]
EmptyHeap ==
    [strTbl |-> [l \in 0..(XDBF_LANGUAGE_MAX - 1) |-> NullObject],
     map_images |-> [i \in ImageIds |-> NullObject],
     live |-> {}, next |-> 1, loads |-> {}, corrupt |-> FALSE]

MtFrame == UNCHANGED <<bigEndian, sapVars, detVars, xexVars, xbeVars, n3dsVars,
                       sysLang, xdbfDisk, xdbfReads, xdbfCall>>

\* The return of thread t from its call: the caller gives the lock back.
MtReturn(t, ret) ==
    /\ mtThreads' = [mtThreads EXCEPT ![t].pc = "idle", ![t].obj = NullObject,
                                      ![t].entry = 0, ![t].ret = ret]
    /\ mtLock' = [mtLock EXCEPT !.holder = 0]

\* The first step of a call, once the search of the entry returned.
MtBegin(t, op, key, r, cached) ==
    IF r.next = "read"
    THEN /\ mtThreads' = [mtThreads EXCEPT ![t].pc = "read", ![t].op = op,
                                           ![t].key = key, ![t].entry = r.entry,
                                           ![t].calls = @ + 1,
                                           ![t].ret = NullObject]
         /\ mtLock' = [mtLock EXCEPT !.holder = IF mtLock.used THEN t ELSE 0]
    ELSE /\ mtThreads' = [mtThreads EXCEPT ![t].op = op, ![t].key = key,
                                           ![t].calls = @ + 1,
                                           ![t].ret = IF r.next = "cached" THEN cached
                                                      ELSE NullObject]
         /\ UNCHANGED mtLock

\* Thread t calls loadStringTable(language_id) and runs it up to the read.
MT_loadStringTable(t) ==
    /\ xdbf.state = "ready"
    /\ ~mtHeap.corrupt
    /\ mtThreads[t].pc = "idle"
    /\ mtThreads[t].calls < MaxThreadCalls
    /\ mtLock.used => mtLock.holder = 0
    /\ \E language_id \in ThreadLanguages :
          MtBegin(t, "loadStringTable", language_id,
                  loadStringTable_find(xdbf, language_id,
                      findResource(xdbf, XDBF_SPA_NAMESPACE_STRING_TABLE, language_id)),
                  mtHeap.strTbl[language_id])
    /\ UNCHANGED <<xdbf, mtHeap>>
    /\ MtFrame

\* Thread t calls loadImage(image_id) and runs it up to the read.
MT_loadImage(t) ==
    /\ xdbf.state = "ready"
    /\ ~mtHeap.corrupt
    /\ mtThreads[t].pc = "idle"
    /\ mtThreads[t].calls < MaxThreadCalls
    /\ mtLock.used => mtLock.holder = 0
    /\ \E image_id \in ThreadImages :
          MtBegin(t, "loadImage", image_id,
                  loadImage_find(xdbf, image_id,
                      findResource(xdbf, XDBF_SPA_NAMESPACE_IMAGE, image_id)),
                  mtHeap.map_images[image_id])
    /\ UNCHANGED <<xdbf, mtHeap>>
    /\ MtFrame

\* The second step, once the read and the validation are done: loaded is
\* whether they left an object.
MtRead(t, loaded) ==
    IF loaded
    THEN /\ mtThreads' = [mtThreads EXCEPT ![t].pc = "store", ![t].obj = mtHeap.next]
         /\ mtHeap' = [mtHeap EXCEPT !.live = @ \cup {mtHeap.next}, !.next = @ + 1,
                           !.loads = @ \cup {<<mtThreads[t].op, mtThreads[t].key,
                                                mtHeap.next>>}]
         /\ UNCHANGED mtLock
    ELSE /\ MtReturn(t, NullObject)
         /\ UNCHANGED mtHeap

\* Thread t reads and validates what its call loads.
MT_Read(t) ==
    /\ ~mtHeap.corrupt
    /\ mtThreads[t].pc = "read"
    /\ IF mtThreads[t].op = "loadStringTable"
       THEN MtRead(t, loadStringTable_read(xdbf, xdbfDisk, mtThreads[t].entry,
                          EntryData(xdbf, xdbfDisk, mtThreads[t].entry)) # NullTable)
       ELSE MtRead(t, loadImage_read(xdbf, xdbfDisk, mtThreads[t].entry,
                          EntryData(xdbf, xdbfDisk, mtThreads[t].entry)) # NullImage)
    /\ UNCHANGED xdbf
    /\ MtFrame

\* Another thread is inside a call of loadImage() that no lock orders with
\* the call of thread t.
MtRacing(t) ==
    /\ ~mtLock.used
    /\ \E u \in Threads \ {t} : mtThreads[u].pc # "idle" /\ mtThreads[u].op = "loadImage"

\* this->strTbl[language_id] = vec; return vec;
MT_StoreStringTable(t) ==
    /\ ~mtHeap.corrupt
    /\ mtThreads[t].pc = "store"
    /\ mtThreads[t].op = "loadStringTable"
    /\ xdbf' = [xdbf EXCEPT !.strTbl[mtThreads[t].key] =
                   loadStringTable_read(xdbf, xdbfDisk, mtThreads[t].entry,
                                        EntryData(xdbf, xdbfDisk, mtThreads[t].entry))]
    /\ mtHeap' = [mtHeap EXCEPT !.strTbl[mtThreads[t].key] = mtThreads[t].obj]
    /\ MtReturn(t, mtThreads[t].obj)
    /\ MtFrame

\* map_images.insert(std::make_pair(image_id, img)); return img;  insert()
\* leaves an element that is there; an insert() that runs while another
\* thread is in the map is a data race, which may also break the map.
MT_StoreImage(t) ==
    /\ ~mtHeap.corrupt
    /\ mtThreads[t].pc = "store"
    /\ mtThreads[t].op = "loadImage"
    /\ \E broken \in (IF MtRacing(t) THEN BOOLEAN ELSE {FALSE}) :
          IF broken
          THEN /\ mtHeap' = [mtHeap EXCEPT !.corrupt = TRUE]
               /\ UNCHANGED xdbf
          ELSE IF mtThreads[t].key \in DOMAIN xdbf.map_images
          THEN UNCHANGED <<xdbf, mtHeap>>
          ELSE /\ xdbf' = [xdbf EXCEPT !.map_images =
                              (mtThreads[t].key :>
                                   loadImage_read(xdbf, xdbfDisk, mtThreads[t].entry,
                                       EntryData(xdbf, xdbfDisk, mtThreads[t].entry)))
                              @@ @]
               /\ mtHeap' = [mtHeap EXCEPT !.map_images[mtThreads[t].key] =
                                               mtThreads[t].obj]
    /\ MtReturn(t, mtThreads[t].obj)
    /\ MtFrame

MtConfigs ==
    {DefaultConfig}
    \cup {[DefaultConfig EXCEPT !.str1 = s] : s \in {"none", "badmagic", "past", "huge"}}
    \cup {[DefaultConfig EXCEPT !.img = s] : s \in {"tiny", "huge"}}
    \cup {[DefaultConfig EXCEPT !.str2 = "ok"], [DefaultConfig EXCEPT !.ctor = "truncated"]}

InitMT ==
    /\ bigEndian = FALSE
    /\ SapIdle
    /\ DetIdle
    /\ XexIdle
    /\ XbeIdle
    /\ N3dsIdle
    /\ sysLang = XDBF_LANGUAGE_ENGLISH
    /\ \E c \in MtConfigs : \E b \in Beyonds(c) : xdbfDisk = Disk(c, b)
    /\ xdbf = Xbox360_XDBF_Private(FALSE)
    /\ xdbfReads = [k \in ReadKeys |-> 0]
    /\ xdbfCall = NoCall
    /\ \E used \in BOOLEAN : mtLock = [used |-> used, holder |-> 0]
    /\ mtThreads = [t \in Threads |-> IdleThread]
    /\ mtHeap = EmptyHeap

NextMT ==
    \/ XDBF_Construct
    \/ \E t \in Threads : MT_loadStringTable(t)
    \/ \E t \in Threads : MT_loadImage(t)
    \/ \E t \in Threads : MT_Read(t)
    \/ \E t \in Threads : MT_StoreStringTable(t)
    \/ \E t \in Threads : MT_StoreImage(t)

SpecMT == InitMT /\ [][NextMT]_vars

-----------------------------------------------------------------------------
(* Claims about the SAP tag parser.                                        *)

\* The header of the form SAP / AUTHOR "a" / SONGS n / DEFSONG m / 0xFF.
SapExampleFile(a, n, m, crlf) ==
    SapFile(<<TagLine(KwAUTHOR, Quoted(a)), TagLine(KwSONGS, Dec(n)),
              TagLine(KwDEFSONG, Dec(m))>>, crlf)

\* C4: parseTags on the magic line followed by AUTHOR "s", SONGS n, DEFSONG m
\* and the 0xFF terminator yields tags_read, author = s, songs = n,
\* def_song = m, ntsc and stereo false, every other field at its default.
C4_ExampleHeaderParsed ==
    \A a \in AuthorNames, n \in SongCounts, m \in DefSongs, crlf \in BOOLEAN :
        (sapParses > 0 /\ sapBytes = SapExampleFile(a, n, m, crlf))
            => sapTags = [TagData EXCEPT !.tags_read = TRUE, !.author = a,
                                         !.songs = n, !.def_song = m]

\* The decimal tags and the field each one names.
DecimalTags == {i \in 1..Len(kwds) : kwds[i].type = "KT_UINT16_DEC"}

\* C5: a decimal tag line whose parameter is a number followed by the end of
\* the line or whitespace sets the field to that number; a parameter with
\* trailing non-numeric characters or without digits leaves the default.
C5_DecimalParameter ==
    \A i \in DecimalTags, crlf \in BOOLEAN :
        /\ \A n \in SongCounts \cup {312} :
              (sapParses > 0 /\ sapBytes = SapFile(<<TagLine(kwds[i].keyword, Dec(n))>>, crlf))
                  => sapTags[kwds[i].ptr] = n
        /\ \A p \in { <<51,49,120,50>>, <<120>> } :
              (sapParses > 0 /\ sapBytes = SapFile(<<TagLine(kwds[i].keyword, p)>>, crlf))
                  => sapTags[kwds[i].ptr] = TagData[kwds[i].ptr]

\* The parameters of the TYPE lines of the files: B and BX.
TypeParams == { <<66>>, <<66, 88>> }

\* C23: a TYPE line sets the type field only when its parameter is exactly
\* one non-space character followed by the end of the line or whitespace; a
\* parameter of two or more characters leaves type at its default.
C23_TypeSingleCharacter ==
    \A p \in TypeParams, crlf \in BOOLEAN :
        (sapParses > 0 /\ sapBytes = SapFile(<<TagLine(KwTYPE, p)>>, crlf))
            => sapTags.type = (IF Len(p) = 1 THEN p[1] ELSE TagData.type)

\* The flag lines with the field each one names, and the SONGS and DEFSONG
\* lines with the field and the number of each.
FlagLines == {[line |-> KwNTSC, ptr |-> "ntsc"], [line |-> KwSTEREO, ptr |-> "stereo"]}
NumberLines ==
    {[line |-> TagLine(KwSONGS, Dec(n)), ptr |-> "songs", val |-> n] : n \in SongCounts}
    \cup {[line |-> TagLine(KwDEFSONG, Dec(m)), ptr |-> "def_song", val |-> m] :
              m \in DefSongs}

\* C24: a tag line changes only the field its keyword names: after a flag
\* line and a SONGS or DEFSONG line, in either order, the flag is true, the
\* field of the number line holds the number and every other field is at
\* its default.
C24_LineChangesItsFieldOnly ==
    \A f \in FlagLines, n \in NumberLines, crlf \in BOOLEAN :
        (/\ sapParses > 0
         /\ sapBytes \in {SapFile(<<f.line, n.line>>, crlf),
                          SapFile(<<n.line, f.line>>, crlf)})
            => sapTags = [TagData EXCEPT !.tags_read = TRUE, ![f.ptr] = 1,
                                         ![n.ptr] = n.val]

-----------------------------------------------------------------------------
(* Claims about the XDBF decoder, checked under SpecXDBF.                  *)

\* The entry of a cache key in the entry table (0: none).
KeyEntry(d, k) ==
    findResource(d, IF k[1] = "img" THEN XDBF_SPA_NAMESPACE_IMAGE
                    ELSE XDBF_SPA_NAMESPACE_STRING_TABLE, k[2]).ret

\* offset + data_offset + length of entry i exceeds the file size, computed
\* without wrapping (file sizes are below 2^30).
EntryPastEnd(d, disk, i) ==
    LET off == be32_to_cpu(d.entryTable.entries[i].offset)
        len == be32_to_cpu(d.entryTable.entries[i].length)
    IN  \/ off[1] + len[1] + d.data_offset[1] >= 16384
        \/ (off[1] + len[1] + d.data_offset[1]) * 65536
             + off[2] + len[2] + d.data_offset[2] > disk.size

CacheKeys == {k \in ReadKeys : k[1] \in {"img", "str"}}
Cached(d, k) ==
    IF k[1] = "img" THEN k[2] \in DOMAIN d.map_images
    ELSE d.strTbl[k[2]] # NullTable

\* C1: the Achievements list holds at most min(achievement_count, 512,
\* (table length - XACH header size) / XACH record size) rows, and no row
\* comes from a record beyond the table buffer that was read.
C1_AchievementRowsBounded ==
    LET i     == findResource(xdbf, XDBF_SPA_NAMESPACE_METADATA, XDBF_XACH_MAGIC).ret
        len   == U32Int(be32_to_cpu(xdbf.entryTable.entries[i].length))
        bound == Min(Min(xdbfDisk.payload[i].achievement_count, XACH_MAX_COUNT),
                     (len - SizeofXachHeader) \div SizeofXachEntry)
    IN  xdbfCall.op = "loadFieldData" /\ i # 0 =>
            /\ xdbf.state # "crashed"
            /\ \A n \in DOMAIN xdbf.fields :
                   xdbf.fields[n].name = "Achievements" =>
                       /\ Len(xdbf.fields[n].rows) <= bound
                       /\ \A j \in DOMAIN xdbf.fields[n].rows : xdbf.fields[n].rows[j].inBuf

\* C2: no seek/read is issued for an image or string table entry whose
\* offset + length extends past the end of the file.
C2_PastEndNotRead ==
    \A n \in DOMAIN xdbfCall.io :
        LET k == xdbfCall.io[n].key
        IN  k \in CacheKeys => ~EntryPastEnd(xdbf, xdbfDisk, KeyEntry(xdbf, k))

\* C3: findResource for a pair that no entry of the table carries returns
\* not-found, examines each of the entry_table_length entries at most once,
\* issues no read and changes nothing in the decoder.
C3_FindResourceNotFound ==
    [][ (/\ xdbfCall'.op = "findResource"
         /\ \A i \in DOMAIN xdbf.entryTable.entries :
                ~(/\ xdbf.entryTable.entries[i].namespace_id = cpu_to_be16(xdbfCall'.arg[1])
                  /\ xdbf.entryTable.entries[i].resource_id = cpu_to_be64(xdbfCall'.arg[2])))
        => /\ xdbfCall'.ret = 0
           /\ Len(xdbfCall'.visited) <= xdbf.entry_table_length
           /\ \A a, b \in DOMAIN xdbfCall'.visited :
                  /\ xdbfCall'.visited[a] \in 1..xdbf.entry_table_length
                  /\ (a # b => xdbfCall'.visited[a] # xdbfCall'.visited[b])
           /\ xdbfCall'.io = <<>>
           /\ xdbf' = xdbf
           /\ xdbfReads' = xdbfReads ]_vars

C3_Witness ==
    /\ xdbfCall.op = "findResource"
    /\ xdbfCall.ret = 0
    /\ ~xdbf.entryTable.null
    /\ Len(xdbfCall.visited) >= 3

\* C8: a decoder whose constructor failed is invalid: isValid() is false,
\* loadFieldData and loadInternalImage return an error, and it holds no
\* field and no image.
C8_FailedConstructorInvalid ==
    xdbf.state = "ready" /\ xdbf.file = "null" =>
        /\ ~xdbf.isValid
        /\ xdbf.fields = <<>>
        /\ xdbf.img_icon = NullImage
        /\ xdbfCall.op \in {"loadFieldData", "loadInternalImage"} => xdbfCall.ret < 0

DeclaredLength(d, i) == U32Int(be32_to_cpu(d.entryTable.entries[i].length))

\* The entry of the achievements table (0: none).
XachEntry(d) == findResource(d, XDBF_SPA_NAMESPACE_METADATA, XDBF_XACH_MAGIC).ret

\* A length is outside the range of its kind of resource: string tables of
\* at most the XSTR header or of more than 1 MiB, images of less than 16
\* bytes or more than 1 MiB, achievement tables shorter than the XACH header
\* or longer than the header and 512 records.
LengthOutsideRange(kind, len) ==
    CASE kind = "str" -> len <= SizeofXstrHeader \/ len > 1024 * 1024
      [] kind = "img" -> len < 16 \/ len > 1024 * 1024
      [] kind = "xach" -> len < SizeofXachHeader
                          \/ len > SizeofXachHeader + 512 * SizeofXachEntry
      [] OTHER -> FALSE

-----------------------------------------------------------------------------
(* Claims about the string lookup, checked under SpecXSTR.                 *)

\* The first string with the id among the strings of a table, 0 if none.
RECURSIVE XstrFirst(_, _, _)
XstrFirst(strings, id, i) ==
    IF i > Len(strings) THEN 0
    ELSE IF strings[i].id = id THEN i
    ELSE XstrFirst(strings, id, i + 1)

\* What the file holds for (language, id): nothing if the table of the
\* language does not load, holds no string with the id, or the string's
\* record runs past the end of the table; the string otherwise.
XstrExpected(disk, l, id) ==
    IF l \notin 1..(XDBF_LANGUAGE_MAX - 1) THEN <<>>
    ELSE IF ~disk.xstr[l].loadable THEN <<>>
    ELSE IF XstrFirst(disk.xstr[l].strings, id, 1) = 0 THEN <<>>
    ELSE IF ~disk.xstr[l].strings[XstrFirst(disk.xstr[l].strings, id, 1)].fits THEN <<>>
    ELSE disk.xstr[l].strings[XstrFirst(disk.xstr[l].strings, id, 1)].unix

\* C13: loadString(language, id) returns the empty string, without raising an
\* error, whenever the string table cannot be loaded, no record has the id,
\* or the matching record's declared length extends past the end of the
\* table; otherwise it returns the record's bytes with DOS line endings
\* converted.
C13_LoadStringResult ==
    xdbfCall.op = "loadString" =>
        /\ xdbfCall.ret = XstrExpected(xdbfDisk, xdbfCall.arg[1], xdbfCall.arg[2])
        /\ xdbf.state = "ready"

\* A string with a DOS line ending was returned converted, from a table
\* that holds it.
C13_Witness ==
    /\ xdbfCall.op = "loadString"
    /\ xdbfCall.arg = <<1, 2>>
    /\ xdbfDisk.xstr[1].loadable
    /\ xdbfCall.ret = <<76, LF, 77>>

\* The indexes of the bytes of the record headers that loadString() read in
\* the call the state records, the table being loaded.
XstrHeaderBytes ==
    LET vec == xdbf.strTbl[xdbfCall.arg[1]]
        hs  == loadStringHeaders(vec \o xdbfDisk.beyond.slack,
                                 cpu_to_be16(xdbfCall.arg[2]),
                                 SizeofXstrHeader + 1, Len(vec) + 1)
    IN  {hs[n] + k : n \in DOMAIN hs, k \in 0..(SizeofXstrEntryHeader - 1)}

\* C27: loadString never reads outside the loaded string table: every byte
\* of every record header it inspects lies within the table.
C27_HeadersWithinTable ==
    (/\ xdbfCall.op = "loadString"
     /\ xdbfCall.arg[1] \in 1..(XDBF_LANGUAGE_MAX - 1)
     /\ xdbf.strTbl[xdbfCall.arg[1]] # NullTable)
        => \A b \in XstrHeaderBytes : b <= Len(xdbf.strTbl[xdbfCall.arg[1]])

-----------------------------------------------------------------------------
(* Claims about detection, checked under SpecDetect.                       *)

Blocks64(size) == size[1] * 1024 + (size[2] + 63) \div 64

\* The blocks the six declared sizes of a CIA header need in all
\* (content_size is 64 bits wide).
CiaBlocks(info) ==
    Blocks64(le32_to_cpu(HeaderField(info, 0, 4)))
    + Blocks64(le32_to_cpu(HeaderField(info, 8, 4)))
    + Blocks64(le32_to_cpu(HeaderField(info, 12, 4)))
    + Blocks64(le32_to_cpu(HeaderField(info, 16, 4)))
    + Blocks64(le32_to_cpu(HeaderField(info, 20, 4)))
    + Blocks64(le32_to_cpu(HeaderField(info, 24, 4)))
    + U32Int(le32_to_cpu(HeaderField(info, 28, 4))) * 67108864

\* C7: detection answers ROM_TYPE_CIA only if header_size is the size of the
\* CIA header and the six declared sizes, each rounded up to a multiple of
\* 64, add up to no more than the file size.
C7_CiaOnlyIfSizesFit ==
    ROM_TYPE_CIA \in detResults["Nintendo3DS"] =>
        /\ le32_to_cpu(HeaderField(detInfo, 0, 4)) = U32(SizeofCiaHeader)
        /\ CiaBlocks(detInfo) <= detInfo.szFile \div 64

-----------------------------------------------------------------------------
(* Claims about the XEX decoder, checked under SpecXEX.                    *)

\* The file is encrypted: its file format info names an encryption type
\* other than XEX2_ENCRYPTION_TYPE_NONE.
XexEncrypted == SubSeq(xexFile.ffi, 5, 6) # BE16(XEX2_ENCRYPTION_TYPE_NONE)

\* The passes of the key loop in the last call, and the last of them.
XexTried == xexCall.log.tried
XexTriedKeys == [i \in 1..Len(XexTried) |-> XexTried[i].key]
XexAccepted(k) ==
    /\ XexTried # <<>>
    /\ XexTried[Len(XexTried)] = [key |-> k, result |-> "accepted"]

\* Retail before debug, and keyInUse names the accepted key, which is the key
\* of the reader until close() deletes the reader: the parts of C11 that its
\* two readings share.
XexKeyOrder ==
    /\ XexTriedKeys \in {<<>>, <<0>>, <<1>>, <<0, 1>>}
    /\ XexTried # <<>> =>
          /\ xexCall.log.verify = "VERIFY_OK" => XexTried[1].key = 0
          /\ xexObj.keyInUse = 0 <=> XexAccepted(0)
          /\ xexObj.keyInUse = 1 <=> XexAccepted(1)
    /\ xexObj.keyInUse \in {-1, 0, 1}
    /\ (xexObj.keyInUse # -1 /\ ~xexCall.closed) =>
          xexObj.peReader = [null |-> FALSE, key |-> xexObj.keyInUse]

\* C11 as stated: for an encrypted XEX, initPeReader tries the retail key
\* first and the debug key second; the debug key is tried only when the
\* retail key is unavailable, fails verification, or the data decrypted with
\* it does not start with 'MZ'; keyInUse is 0 exactly when the retail key was
\* accepted and 1 exactly when the debug key was accepted.
C11_DebugOnlyAfterNotMZ ==
    /\ XexKeyOrder
    /\ (\E i \in 1..Len(XexTried) : XexTried[i].key = 1) =>
          \/ xexCall.log.verify # "VERIFY_OK"
          \/ XexTried[1] = [key |-> 0, result |-> "notMZ"]

\* C11, amended: the debug key is tried only when the retail key is
\* unavailable, fails verification, or was rejected in its pass of the loop,
\* whatever the reason (cipher set-up, title key decryption, reader not
\* open, short read of the magic, or magic other than 'MZ'); retail comes
\* first, and keyInUse names the accepted key.
C11_DebugOnlyAfterRetailRejected ==
    /\ XexKeyOrder
    /\ (\E i \in 1..Len(XexTried) : XexTried[i].key = 1) =>
          \/ xexCall.log.verify # "VERIFY_OK"
          \/ /\ XexTried[1].key = 0
             /\ XexTried[1].result \in {"setKey", "decrypt", "notOpen", "shortRead", "notMZ"}

\* An encrypted file whose retail key verified, decrypted to something else
\* than 'MZ', and whose debug key was then accepted.
C11_Witness ==
    /\ XexEncrypted
    /\ xexCall.log.verify = "VERIFY_OK"
    /\ XexTried = <<[key |-> 0, result |-> "notMZ"], [key |-> 1, result |-> "accepted"]>>
    /\ xexObj.keyInUse = 1

\* No candidate key decrypts the start of the PE to 'MZ'.
XexNoKeyYieldsMZ ==
    /\ XexEncrypted
    /\ xexFile.plain[1] # cpu_to_be16(MZ)
    /\ xexFile.plain[2] # cpu_to_be16(MZ)

\* C12: for an encrypted XEX, if no candidate key yields a buffer starting
\* with 'MZ', initPeReader returns null, peReader stays null, keyInUse stays
\* -1 and initXDBF returns null, so that neither a title nor an icon of the
\* PE section is exposed.
C12_NoKeyNoContent ==
    XexNoKeyYieldsMZ =>
        /\ xexObj.peReader.null
        /\ xexObj.keyInUse = -1
        /\ xexObj.pe_xdbf.null
        /\ xexCall.xdbf.null
        /\ \A i \in 1..Len(xexObj.fields) : xexObj.fields[i].name # "Title"
        /\ xexObj.metaData.null
        /\ xexCall.op = "loadInternalImage" => xexCall.ret < 0 /\ ~xexCall.written

\* Both keys were tried on such a file and rejected for the magic, and the
\* field list was produced without a title.
C12_Witness ==
    /\ XexNoKeyYieldsMZ
    /\ XexTried = <<[key |-> 0, result |-> "notMZ"], [key |-> 1, result |-> "notMZ"]>>
    /\ xexCall.op = "loadFieldData"
    /\ xexObj.fields # <<>>

\* C19: every structure read of initPeReader that returns fewer bytes than
\* requested is fatal: after a short read of the file format info or of the
\* basic-compression segment table the load is aborted (no reader, no XDBF),
\* and no segment entry is computed from the buffer.
C19_ShortReadAborts ==
    LET log == xexCall.log
    IN  /\ (log.ffiGot # -1 /\ log.ffiGot # SizeofXex2FileFormatInfo) =>
              xexObj.peReader.null /\ xexCall.xdbf.null /\ log.segsBuilt = 0
        /\ (log.cbiGot # -1 /\ log.cbiGot # log.segLen) =>
              xexObj.peReader.null /\ xexCall.xdbf.null /\ log.segsBuilt = 0

-----------------------------------------------------------------------------
(* Claims about the XBE decoder, checked under SpecXBE.                    *)

\* C15: loadInternalImage(IMG_INT_ICON) on a valid decoder whose title image
\* cannot be initialized reports no image (a null image and an error code)
\* and never goes through an uninitialized or null image object.
C15_NoImageWithoutTitleImage ==
    (/\ xbeCall.op = "loadInternalImage"
     /\ xbeCall.arg = IMG_INT_ICON
     /\ xbeObj.isValid
     /\ ~xbeObj.xtImage.isInit)
    => /\ xbeObj.state # "crashed"
       /\ xbeCall.written
       /\ xbeCall.image = NullImage
       /\ xbeCall.ret < 0

\* C20: initXPR0_xtImage() returns 0 if and only if xtImage.isInit is true
\* when it returns, and a negative error code where the image was not
\* initialized.
C20_ZeroIffInitialized ==
    xbeCall.called =>
        /\ xbeCall.init # 1
        /\ (xbeCall.init = 0) <=> xbeObj.xtImage.isInit
        /\ ~xbeObj.xtImage.isInit => xbeCall.init < 0

-----------------------------------------------------------------------------
(* Claims about the 3DS decoder, checked under SpecN3DS.                   *)

\* C17: each bit of headers_loaded is set only by a successful load of its
\* header; for every ROM type, 3DSX included, HEADER_EXHEADER is set only
\* after loadExHeader() has read (and decrypted) the ExHeader, so the
\* ExHeader tab is added only when ncch_exheader holds loaded data.
C17_BitsMeanLoaded ==
    /\ HasHeader(n3dsObj.headers_loaded, HEADER_SMDH) => n3dsObj.smdh = "loaded"
    /\ HasHeader(n3dsObj.headers_loaded, HEADER_NCCH) => n3dsObj.ncch_header.buf = "loaded"
    /\ HasHeader(n3dsObj.headers_loaded, HEADER_TMD) => n3dsObj.tmd_header = "loaded"
    /\ HasHeader(n3dsObj.headers_loaded, HEADER_EXHEADER) => n3dsObj.ncch_exheader = "loaded"
    /\ (\E n \in DOMAIN n3dsObj.fields : n3dsObj.fields[n] = "ExHeader")
           => n3dsObj.ncch_exheader = "loaded"

\* C18: headers_loaded only grows: no operation on the decoder clears a bit
\* that was set.
C18_HeadersOnlyGrow ==
    [][\A bit \in {HEADER_SMDH, HEADER_NCCH, HEADER_EXHEADER, HEADER_CIA,
                   HEADER_TMD, HEADER_NCSD} :
           HasHeader(n3dsObj.headers_loaded, bit)
               => HasHeader(n3dsObj'.headers_loaded, bit)]_vars

\* A loader set a bit on a decoder that held another one already.
C18_Witness ==
    /\ n3dsCall.op = "loadExHeader"
    /\ n3dsCall.ret = 0
    /\ HasHeader(n3dsObj.headers_loaded, HEADER_NCSD)
    /\ HasHeader(n3dsObj.headers_loaded, HEADER_NCCH)
    /\ HasHeader(n3dsObj.headers_loaded, HEADER_EXHEADER)

-----------------------------------------------------------------------------
(* Claims about two threads on one XDBF decoder, checked under SpecMT.     *)

\* An object that was loaded and not deleted, that no thread is about to
\* store, and that neither strTbl[] nor map_images points to: the decoder's
\* destructor does not delete it.
MtUnowned ==
    {o \in mtHeap.live :
        /\ \A t \in Threads : mtThreads[t].obj # o
        /\ \A l \in DOMAIN mtHeap.strTbl : mtHeap.strTbl[l] # o
        /\ \A i \in DOMAIN mtHeap.map_images : mtHeap.map_images[i] # o}

\* The loads that were completed for one key of one loader.
MtLoadsOf(op, key) == {e \in mtHeap.loads : e[1] = op /\ e[2] = key}

\* C16: where the caller serializes the calls with a lock, no first-access
\* load is done twice for one language or one image id, and every object
\* loaded stays owned by the decoder.  (Without the lock the state the claim
\* describes is reachable: C16_Witness.)
C16_LockedLoadsOnce ==
    mtLock.used =>
        /\ MtUnowned = {}
        /\ ~mtHeap.corrupt
        /\ \A l \in ThreadLanguages : Cardinality(MtLoadsOf("loadStringTable", l)) <= 1
        /\ \A i \in ThreadImages : Cardinality(MtLoadsOf("loadImage", i)) <= 1

\* No lock: both threads have loaded the same string table and both have
\* stored it, and both have loaded the same image and both have come to the
\* insert; one table was overwritten and one image is in no map.
C16_Witness ==
    /\ ~mtLock.used
    /\ \A t \in Threads : mtThreads[t].pc = "idle" /\ mtThreads[t].calls = 2
    /\ \E l \in ThreadLanguages : \E i \in ThreadImages :
          /\ Cardinality(MtLoadsOf("loadStringTable", l)) = 2
          /\ Cardinality(MtLoadsOf("loadImage", i)) = 2
          /\ \E e \in MtLoadsOf("loadStringTable", l) : e[3] \in MtUnowned
          /\ \E e \in MtLoadsOf("loadImage", i) : e[3] \in MtUnowned
    /\ ~mtHeap.corrupt

-----------------------------------------------------------------------------
(* Claims about the buffers of the 3DS decoder, checked under SpecN3DS.    *)

\* C22: loadExHeader validates exheader_size before it uses it: the number
\* of bytes read into ncch_exheader never exceeds the size of the structure.
C22_ExHeaderReadFits == n3dsObj.exheader_read <= SizeofNcchExHeader

\* C28: loadTMD never indexes content_chunks at or beyond content_count: the
\* DSiWare check reads content_chunks[0] only when a record was loaded.
C28_ChunkIndexInRange == \A i \in n3dsObj.chunks_read : i < n3dsObj.content_count

-----------------------------------------------------------------------------
(* Claims about the nested objects of the XEX decoder, checked under       *)
(* SpecXEX.                                                                *)

\* The place of an object in the chain reader <- sub-view <- nested decoder.
ReleaseRank(o) ==
    CASE o = "pe_xdbf" -> 1
      [] o = "peFile" -> 2
      [] o = "peReader" -> 3

\* C21: a non-null pe_xdbf implies a non-null peFile and a non-null
\* peReader; an initXDBF() that fails leaves pe_xdbf and peFile null; close()
\* and the destructor release the nested decoder before the sub-view and the
\* sub-view before the reader; after close() all three are null.
C21_NestedObjectsOwnedInOrder ==
    /\ ~xexObj.pe_xdbf.null => xexObj.peFile # "null" /\ ~xexObj.peReader.null
    /\ (/\ xexCall.op \in {"loadFieldData", "loadMetaData", "supportedImageTypes",
                           "supportedImageSizes", "imgpf"}
        /\ xexCall.log.ran
        /\ xexCall.xdbf.null) =>
           xexObj.pe_xdbf.null /\ xexObj.peFile = "null"
    /\ xexCall.op \in {"close", "destroy"} =>
           \A i \in 1..Len(xexCall.released) : \A j \in 1..Len(xexCall.released) :
               i < j => ReleaseRank(xexCall.released[i]) < ReleaseRank(xexCall.released[j])
    /\ xexCall.op = "close" =>
           xexObj.pe_xdbf.null /\ xexObj.peFile = "null" /\ xexObj.peReader.null

\* close() ran on a decoder that held all three objects and released them.
C21_Witness ==
    /\ xexCall.op = "close"
    /\ xexCall.released = <<"pe_xdbf", "peFile", "peReader">>
    /\ xexObj.pe_xdbf.null

\* The file is a valid XEX whose executable embeds an XDBF with an icon: on
\* the freshly constructed decoder initXDBF() opens it.
XexHasIcon ==
    /\ Xbox360_XEX_init(Xbox360_XEX_Private, xexFile).isValid
    /\ Xbox360_XEX_init(Xbox360_XEX_Private, xexFile).file = "open"
    /\ ~initXDBF(Xbox360_XEX_init(Xbox360_XEX_Private, xexFile), xexFile, bigEndian).ret.null
    /\ xexFile.icon # NullImage

\* C25: on a valid XEX with an embedded icon, loadInternalImage(IMG_INT_ICON)
\* returns the same image whatever was called before it: the result of any
\* call on the open decoder equals the result of the call that follows
\* loadFieldData() on a fresh decoder.
C25_IconWhateverCameBefore ==
    (xexCall.op = "loadInternalImage" /\ ~xexCall.closed /\ XexHasIcon) =>
        LET fresh  == Xbox360_XEX_init(Xbox360_XEX_Private, xexFile)
            loaded == Xbox360_XEX_loadFieldData(fresh, xexFile, bigEndian).d
        IN  /\ xexCall.ret = Xbox360_XEX_loadInternalImage(loaded).ret
            /\ xexCall.image = Xbox360_XEX_loadInternalImage(loaded).image

\* C29: after initPeReader() handled an executable with basic compression,
\* basicZDataSegments holds exactly seg_count entries, every one of them
\* initialized by the segment loop, so the address translation of initXDBF()
\* runs over declared segments only.
C29_SegmentsAsDeclared ==
    xexCall.log.segLen >= 0 =>
        /\ xexObj.basicZDataSegments.n = xexCall.log.segsBuilt
        /\ Len(xexObj.basicZDataSegments.segs) = xexObj.basicZDataSegments.n
        /\ ZDataSegments(xexObj, xexFile) = xexObj.basicZDataSegments.segs

\* C30: after close() no query uses the closed file: supportedImageTypes,
\* supportedImageSizes, imgpf, loadFieldData, loadMetaData and
\* loadInternalImage, in any order, return "nothing available" or an error,
\* and none of them reads through the file pointer close() released.
C30_NoQueryUsesClosedFile ==
    xexCall.closed =>
        /\ xexObj.state # "crashed"
        /\ xexCall.log.ffiGot = -1
        /\ xexCall.op \in {"supportedImageTypes", "supportedImageSizes", "imgpf"} =>
               xexCall.ret = 0
        /\ xexCall.op \in {"loadFieldData", "loadMetaData"} => xexCall.ret <= 0
        /\ xexCall.op = "loadInternalImage" => xexCall.ret < 0 /\ ~xexCall.written

-----------------------------------------------------------------------------
(* Claims about the shared DiscReader of the XBE decoder, checked under    *)
(* SpecXBE.                                                                *)

\* C26: the outcome of initEXE() does not depend on whether
\* initXPR0_xtImage() ran before it: where initEXE() needs the shared
\* DiscReader and there is none, it creates one, stores it in discReader and
\* builds the EXE sub-view on it, so discReader is non-null whenever a
\* sub-view is constructed over it, and the EXE it returns is the one it
\* returns when the reader was there already.
C26_InitEXEBuildsOnSharedReader ==
    /\ xbeCall.exe.built => xbeCall.exe.disc /\ xbeObj.discReader
    /\ (xbeCall.exe.created /\ xbeFile.discOpen) => xbeObj.discReader
    /\ xbeCall.exe.ran =>
           /\ xbeObj.state # "crashed"
           /\ xbeObj.pe_exe =
                  initEXE([xbeObj EXCEPT !.pe_exe = FALSE,
                                         !.discReader = xbeFile.discOpen],
                          xbeFile).ret

=============================================================================
